---- MODULE Spec2Model ----
(***************************************************************************)
(* A model of the tick execution core of agentecs: the entity allocator,   *)
(* the in-memory storage, the SystemResult op log, the ScopedAccess view   *)
(* handed to a running system, World.execute_system / apply_result and the *)
(* SimpleScheduler.                                                        *)
(*                                                                         *)
(* Eight specifications share the variables:                               *)
(*   Spec          one World driven through ticks of its scheduler;        *)
(*   SpecCommit    one World on which a SystemResult is recorded op by op  *)
(*                 and then committed with World.apply_result;             *)
(*   SpecStorage   one World called from outside a tick: spawn, destroy    *)
(*                 and set on its storage and allocator;                   *)
(*   SpecSnapshot  a snapshot of a World, calls after it, and a restore    *)
(*                 into the same or into a fresh World;                    *)
(*   SpecMerge     World.merge_entities and World.split_entity on a World  *)
(*                 of two entities;                                        *)
(*   SpecRegistry  threads that call ComponentRegistry.register;           *)
(*   SpecNormalize normalize_access applied once and twice;                *)
(*   SpecAccess    reads of a ScopedAccess (get, has, query) over a buffer *)
(*                 recorded op by op.                                      *)
(***************************************************************************)
EXTENDS Integers, Sequences, FiniteSets, TLC

VARIABLES
    storage,      \* LocalStorage: _components and its EntityAllocator
    result,       \* SpecCommit: the SystemResult being recorded
    applied,      \* SpecCommit: how the recorded result was committed, if it was
    new_entities, \* SpecCommit: what that apply_result returned
    systems,      \* SimpleScheduler._systems, in registration order
    execution_plan, \* SimpleScheduler._execution_plan (NoPlan when invalidated)
    config,       \* SimpleScheduler._config
    tick,         \* position of tick_async: its phase, the index of the group it is at
                  \* or ended at, and the exception it ended with
    tasks,        \* per registered system: its task in the current tick
    snapshot,     \* history: the storage as it was when the current group was dispatched
    lastCall,     \* history: the last call a system made on its ScopedAccess or the
                  \* return of its body, its outcome, and whether the exception left the body
    semaphore,    \* _value of the asyncio.Semaphore of the group being executed;
                  \* 0 when max_concurrent is None or no group is being executed
    recorded,     \* history: what the record_* and merge calls on `result` were
                  \* given, in call order
    world_call,   \* history: the last call made on the World from outside a tick
    handles,      \* history: the handles create_entity returned and the ones that
                  \* were destroyed while they existed
    pickled,      \* SpecSnapshot: the bytes World.snapshot() returned, the storage
                  \* they were taken of, the calls made since, and whether a
                  \* restore was made
    registry,     \* SpecRegistry: ComponentRegistry._by_type and ._by_type_id
    threads,      \* SpecRegistry: per thread, the register call it is in and where
    normalized    \* SpecNormalize: an access spec and what normalize_access made
                  \* of it, once and twice

vars == <<storage, result, applied, new_entities, systems, execution_plan,
          config, tick, tasks, snapshot, lastCall, semaphore, recorded,
          world_call, handles, pickled, registry, threads, normalized>>

---------------------------------------------------------------------------
(* Bounds of the model *)

\* component values are 0..MaxVal
MaxVal == 1
\* ops recorded in one SystemResult
MaxOps == 2
\* systems registered with the scheduler
MaxSystems == 2
\* RetryPolicy.max_attempts when retry is on
MaxAttempts == 2
\* SchedulerConfig.max_concurrent when concurrency is capped
MaxConcurrent == 1
\* SpecStorage: new indices the allocator issues
MaxEntities == 1
\* SpecStorage: the highest generation an index reaches
MaxGeneration == 2
\* SpecStorage: the longest free list of the allocator
MaxFreed == 1
\* SpecSnapshot: the calls made between World.snapshot and World.restore
MaxChanges == 2
\* SpecMerge: the calls of merge_entities and split_entity
MaxCalls == 2
\* SpecRegistry: the threads that call ComponentRegistry.register
MaxThreads == 2
\* SpecRegistry: the calls of register one thread makes
MaxRegisterCalls == 2
\* SpecNormalize: the longest tuple of an access spec
MaxLen == 2

(* Program constants *)

\* SystemEntity._RESERVED_COUNT
RESERVED_COUNT == 1000

---------------------------------------------------------------------------
(* Components.  Two component types as in the scheduler tests: a plain     *)
(* dataclass and one that defines __combine__ (summing its values).        *)

Types == {"Counter", "CombinableCounter"}

Values == 0 .. MaxVal

Component(t, v) == [type |-> t, value |-> v]

Components == {Component(t, v) : t \in Types, v \in Values}

\* Python's None where a component is expected
None == [type |-> "None"]

get_type(component) == component.type

\* True for the types that implement the combine protocol
Combinable(t) == t = "CombinableCounter"

\* CombinableCounter.__combine__
combine(prior, new) == Component(prior.type, prior.value + new.value)

---------------------------------------------------------------------------
(* Entity identity *)

EntityId(i, g) == [shard |-> 0, index |-> i, generation |-> g]

WORLD == EntityId(0, 0)

CLOCK == EntityId(1, 0)

\* the first entity the allocator issues
E1 == EntityId(RESERVED_COUNT, 0)

---------------------------------------------------------------------------
(* Helpers for Python dicts and lists *)

Put(f, k, v) == [x \in DOMAIN f \cup {k} |-> IF x = k THEN v ELSE f[x]]

Del(f, k) == [x \in DOMAIN f \ {k} |-> f[x]]

EmptyDict == [x \in {} |-> 0]

Last(s) == s[Len(s)]

Front(s) == SubSeq(s, 1, Len(s) - 1)

---------------------------------------------------------------------------
(* EntityAllocator.  A storage value st is the record                      *)
(*   components  _components: entity -> (type -> component)                *)
(*   next_index, free_list, generations: the allocator's fields.           *)
(* Every entity of the model is on the local shard 0.                      *)

allocate(st) ==
    IF st.free_list # <<>>
    THEN [st |-> [st EXCEPT !.free_list = Front(st.free_list)],
          entity |-> EntityId(Last(st.free_list)[1], Last(st.free_list)[2])]
    ELSE [st |-> [st EXCEPT !.next_index = st.next_index + 1,
                            !.generations = Put(st.generations, st.next_index, 0)],
          entity |-> EntityId(st.next_index, 0)]

\* a deallocate that leaves the generation of the index as it is (differs
\* from deallocate)
deallocate_same_generation(st, entity) ==
    [st EXCEPT !.free_list = Append(st.free_list, <<entity.index, entity.generation + 1>>)]

deallocate(st, entity) ==
    [st EXCEPT !.generations = Put(st.generations, entity.index, entity.generation + 1),
               !.free_list = Append(st.free_list, <<entity.index, entity.generation + 1>>)]

is_alive(st, entity) ==
    /\ entity.shard = 0
    /\ entity.index \in DOMAIN st.generations
    /\ st.generations[entity.index] = entity.generation

---------------------------------------------------------------------------
(* LocalStorage (components that are not wrapped as Shared) *)

create_entity(st) ==
    LET a == allocate(st)
    IN [st |-> [a.st EXCEPT !.components = Put(a.st.components, a.entity, EmptyDict)],
        entity |-> a.entity]

destroy_entity(st, entity) ==
    IF entity \in DOMAIN st.components
    THEN deallocate([st EXCEPT !.components = Del(st.components, entity)], entity)
    ELSE st

entity_exists(st, entity) ==
    entity \in DOMAIN st.components /\ is_alive(st, entity)

all_entities(st) == {e \in DOMAIN st.components : is_alive(st, e)}

get_component(st, entity, component_type) ==
    IF entity \notin DOMAIN st.components THEN None
    ELSE IF component_type \notin DOMAIN st.components[entity] THEN None
    ELSE st.components[entity][component_type]

set_component(st, entity, component) ==
    LET present == IF entity \in DOMAIN st.components
                   THEN st.components[entity] ELSE EmptyDict
    IN [st EXCEPT !.components =
            Put(st.components, entity, Put(present, get_type(component), component))]

remove_component(st, entity, component_type) ==
    IF entity \notin DOMAIN st.components THEN st
    ELSE IF component_type \in DOMAIN st.components[entity]
    THEN [st EXCEPT !.components =
            Put(st.components, entity, Del(st.components[entity], component_type))]
    ELSE st

has_component(st, entity, component_type) ==
    /\ entity \in DOMAIN st.components
    /\ component_type \in DOMAIN st.components[entity]

get_component_types(st, entity) ==
    IF entity \notin DOMAIN st.components THEN {} ELSE DOMAIN st.components[entity]

\* the (entity, components) pairs LocalStorage.query yields, as a set
query(st, component_types) ==
    {<<e, [i \in 1 .. Len(component_types) |-> st.components[e][component_types[i]]]>> :
        e \in {x \in DOMAIN st.components :
                 /\ is_alive(st, x)
                 /\ \A i \in 1 .. Len(component_types) :
                        component_types[i] \in DOMAIN st.components[x]}}

---------------------------------------------------------------------------
(* SystemResult: the ordered op log.  A result r is the record             *)
(*   ops          _ops, each op a record with its op_seq and kind          *)
(*   next_op_seq  _next_op_seq.                                            *)
(* The five _*_indices lists hold the op_seq of the ops of one kind in     *)
(* record order; they are derived from ops by IndicesOf.                   *)

EmptyResult == [ops |-> <<>>, next_op_seq |-> 0]

record_update(r, entity, component) ==
    [ops |-> Append(r.ops, [op_seq |-> r.next_op_seq, kind |-> "update",
                            entity |-> entity, component |-> component]),
     next_op_seq |-> r.next_op_seq + 1]

record_insert(r, entity, component) ==
    [ops |-> Append(r.ops, [op_seq |-> r.next_op_seq, kind |-> "insert",
                            entity |-> entity, component |-> component]),
     next_op_seq |-> r.next_op_seq + 1]

record_remove(r, entity, component_type) ==
    [ops |-> Append(r.ops, [op_seq |-> r.next_op_seq, kind |-> "remove",
                            entity |-> entity, component_type |-> component_type]),
     next_op_seq |-> r.next_op_seq + 1]

record_spawn(r, components) ==
    [ops |-> Append(r.ops, [op_seq |-> r.next_op_seq, kind |-> "spawn",
                            spawn_components |-> components]),
     next_op_seq |-> r.next_op_seq + 1]

record_destroy(r, entity) ==
    [ops |-> Append(r.ops, [op_seq |-> r.next_op_seq, kind |-> "destroy",
                            entity |-> entity]),
     next_op_seq |-> r.next_op_seq + 1]

RECURSIVE IndicesOf(_, _)
IndicesOf(ops, kind) ==
    IF ops = <<>> THEN <<>>
    ELSE (IF Head(ops).kind = kind THEN <<Head(ops).op_seq>> ELSE <<>>)
         \o IndicesOf(Tail(ops), kind)

\* the ops SystemResult's view of one kind walks: self._ops[i] for i in the index list
OpsOfKind(r, kind) ==
    LET idx == IndicesOf(r.ops, kind)
    IN [j \in 1 .. Len(idx) |-> r.ops[idx[j] + 1]]

MaxOf(S) == CHOOSE x \in S : \A y \in S : y <= x

\* SystemResult.updates: {entity: {type: component}}, the last update of a pair wins
updates(r) ==
    LET us == OpsOfKind(r, "update")
        at(e) == {j \in 1 .. Len(us) : us[j].entity = e}
    IN [e \in {us[j].entity : j \in 1 .. Len(us)} |->
          [t \in {get_type(us[j].component) : j \in at(e)} |->
              us[MaxOf({j \in at(e) : get_type(us[j].component) = t})].component]]

\* SystemResult.inserts: {entity: [components]} in record order
inserts(r) ==
    LET is == OpsOfKind(r, "insert")
    IN [e \in {is[j].entity : j \in 1 .. Len(is)} |->
          LET mine == SelectSeq(is, LAMBDA o : o.entity = e)
          IN [j \in 1 .. Len(mine) |-> mine[j].component]]

\* SystemResult.removes: {entity: [types]} in record order
removes(r) ==
    LET rs == OpsOfKind(r, "remove")
    IN [e \in {rs[j].entity : j \in 1 .. Len(rs)} |->
          LET mine == SelectSeq(rs, LAMBDA o : o.entity = e)
          IN [j \in 1 .. Len(mine) |-> mine[j].component_type]]

\* SystemResult.spawns: the component tuples of the spawn ops in record order
spawns(r) ==
    LET ss == OpsOfKind(r, "spawn")
    IN [j \in 1 .. Len(ss) |-> ss[j].spawn_components]

\* SystemResult.destroys: the entities of the destroy ops in record order
destroys(r) ==
    LET ds == OpsOfKind(r, "destroy")
    IN [j \in 1 .. Len(ds) |-> ds[j].entity]

is_empty(r) == r.ops = <<>>

\* a merge that puts the ops of other before the ops of self (differs from merge)
merge_other_first(self, otherOps) ==
    LET all == otherOps \o self.ops
    IN [ops |-> [j \in 1 .. Len(all) |-> [all[j] EXCEPT !.op_seq = j - 1]],
        next_op_seq |-> Len(all)]

RECURSIVE merge(_, _)
\* SystemResult.merge: re-records every op of other, in order, after self's ops
merge(self, otherOps) ==
    IF otherOps = <<>> THEN self
    ELSE LET op == Head(otherOps)
             next == CASE op.kind = "update" -> record_update(self, op.entity, op.component)
                       [] op.kind = "insert" -> record_insert(self, op.entity, op.component)
                       [] op.kind = "remove" -> record_remove(self, op.entity, op.component_type)
                       [] op.kind = "spawn" -> record_spawn(self, op.spawn_components)
                       [] op.kind = "destroy" -> record_destroy(self, op.entity)
         IN merge(next, Tail(otherOps))

---------------------------------------------------------------------------
(* LocalStorage.apply_updates and World.apply_result_async.                *)
(* The views are applied kind by kind: every update, then every insert,    *)
(* then every remove, then every destroy.  set_component and               *)
(* remove_component on different entities commute, so the order in which   *)
(* the dicts hand out their entities does not show in the outcome; the     *)
(* lists of one entity and the destroys are walked in list order.          *)

RECURSIVE SetEach(_, _, _)
\* for comp in components: set_component(entity, comp)
SetEach(st, entity, components) ==
    IF components = <<>> THEN st
    ELSE SetEach(set_component(st, entity, Head(components)), entity, Tail(components))

RECURSIVE RemoveEach(_, _, _)
\* for t in types: remove_component(entity, t)
RemoveEach(st, entity, types) ==
    IF types = <<>> THEN st
    ELSE RemoveEach(remove_component(st, entity, Head(types)), entity, Tail(types))

RECURSIVE DestroyEach(_, _)
\* for entity in destroys: destroy_entity(entity)
DestroyEach(st, ds) ==
    IF ds = <<>> THEN st
    ELSE DestroyEach(destroy_entity(st, Head(ds)), Tail(ds))

\* the values of a dict {type: component}, as a sequence
RECURSIVE DictValues(_)
DictValues(d) ==
    IF DOMAIN d = {} THEN <<>>
    ELSE LET k == CHOOSE x \in DOMAIN d : TRUE
         IN <<d[k]>> \o DictValues(Del(d, k))

RECURSIVE ApplyUpdatesDict(_, _)
\* for entity, components in updates.items(): set every component
ApplyUpdatesDict(st, d) ==
    IF DOMAIN d = {} THEN st
    ELSE LET e == CHOOSE x \in DOMAIN d : TRUE
         IN ApplyUpdatesDict(SetEach(st, e, DictValues(d[e])), Del(d, e))

RECURSIVE ApplyInsertsDict(_, _)
\* for entity, component_list in inserts.items(): set every component
ApplyInsertsDict(st, d) ==
    IF DOMAIN d = {} THEN st
    ELSE LET e == CHOOSE x \in DOMAIN d : TRUE
         IN ApplyInsertsDict(SetEach(st, e, d[e]), Del(d, e))

RECURSIVE ApplyRemovesDict(_, _)
\* for entity, types in removes.items(): remove every type
ApplyRemovesDict(st, d) ==
    IF DOMAIN d = {} THEN st
    ELSE LET e == CHOOSE x \in DOMAIN d : TRUE
         IN ApplyRemovesDict(RemoveEach(st, e, d[e]), Del(d, e))

\* a commit that destroys first and sets afterwards (differs from apply_updates)
apply_updates_destroys_first(st, ups, ins, rms, ds) ==
    ApplyRemovesDict(ApplyInsertsDict(ApplyUpdatesDict(DestroyEach(st, ds), ups), ins), rms)

\* the storage after the updates, the inserts, the removes and the destroys, in that order
apply_updates(st, ups, ins, rms, ds) ==
    DestroyEach(ApplyRemovesDict(ApplyInsertsDict(ApplyUpdatesDict(st, ups), ins), rms), ds)

RECURSIVE SpawnEach(_, _, _)
\* for components in result.spawns: create the entity and set its components
SpawnEach(st, sps, made) ==
    IF sps = <<>> THEN [st |-> st, new_entities |-> made]
    ELSE LET c == create_entity(st)
         IN SpawnEach(SetEach(c.st, c.entity, Head(sps)), Tail(sps),
                      Append(made, c.entity))

\* World.apply_result_async: [st |-> the storage after, new_entities |-> its return]
apply_result_async(st, r) ==
    LET sp == SpawnEach(st, spawns(r), <<>>)
    IN [st |-> apply_updates(sp.st, updates(r), inserts(r), removes(r), destroys(r)),
        new_entities |-> sp.new_entities]

---------------------------------------------------------------------------
(* World: construction and the out-of-tick helpers *)

EmptyStorage ==
    [components |-> EmptyDict, next_index |-> RESERVED_COUNT,
     free_list |-> <<>>, generations |-> EmptyDict]

\* World._ensure_system_entities: WORLD and CLOCK are put into _components
\* directly; the allocator never hears of them
ensure_system_entities(st) ==
    [st EXCEPT !.components = Put(Put(st.components, WORLD, EmptyDict), CLOCK, EmptyDict)]

\* the storage of World()
NewWorld == ensure_system_entities(EmptyStorage)

\* World.spawn
spawn(st, components) ==
    LET c == create_entity(st)
    IN [st |-> SetEach(c.st, c.entity, components), entity |-> c.entity]

\* World.destroy
destroy(st, entity) == destroy_entity(st, entity)

\* World.set
set(st, entity, component) == set_component(st, entity, component)

\* World.set_singleton
set_singleton(st, component) == set(st, WORLD, component)

\* LocalStorage.snapshot: the pickled dict (no component of the model is
\* Shared, so the three shared_* entries are empty and left out)
pickle_snapshot(st) ==
    [shard |-> 0, components |-> st.components, allocator_next |-> st.next_index]

\* LocalStorage.restore: _components and the allocator's _next_index are
\* assigned from the dict; _free_list and _generations stay as they are
restore(st, data) ==
    [st EXCEPT !.components = data.components, !.next_index = data.allocator_next]

\* a World in which E1 was spawned with its counter at 0
WorldOfOne == spawn(NewWorld, <<Component("Counter", 0)>>).st

\* a World in which E1 was spawned with both counters at 0
WorldOfTwo ==
    spawn(NewWorld, <<Component("Counter", 0), Component("CombinableCounter", 0)>>).st

\* the worlds the ticks of Spec start from
TickWorlds == {NewWorld, WorldOfOne, WorldOfTwo}

\* the worlds a result is committed to: those, and the ones in which E1 was
\* destroyed and in which its index was issued again
InitialWorlds ==
    TickWorlds \cup {destroy(WorldOfOne, E1),
                     spawn(destroy(WorldOfOne, E1), <<Component("Counter", 0)>>).st}

\* the components the systems of Spec write: the counters moved to MaxVal
Written == {Component(t, MaxVal) : t \in Types}

---------------------------------------------------------------------------
(* System descriptors.  An access pattern is AllAccess, NoAccess or a      *)
(* TypeAccess over a set of types.                                         *)

AllAccess == [pattern |-> "AllAccess", types |-> {}]

NoAccess == [pattern |-> "NoAccess", types |-> {}]

TypeAccess(ts) == [pattern |-> "TypeAccess", types |-> ts]

\* @system(reads=(Counter,), writes=(Counter,))
NormalSystem ==
    [name |-> "normal", reads |-> TypeAccess({"Counter"}), writes |-> TypeAccess({"Counter"}),
     mode |-> "INTERACTIVE", runs_alone |-> FALSE]

\* @system.dev()
DevSystem ==
    [name |-> "dev", reads |-> AllAccess, writes |-> AllAccess,
     mode |-> "INTERACTIVE", runs_alone |-> TRUE]

\* @system.readonly(reads=(Counter,))
ReadonlySystem ==
    [name |-> "readonly", reads |-> TypeAccess({"Counter"}), writes |-> NoAccess,
     mode |-> "READONLY", runs_alone |-> FALSE]

\* @system(reads=(Counter,), writes=(Counter,), mode=SystemMode.PURE)
PureSystem ==
    [name |-> "pure", reads |-> TypeAccess({"Counter"}), writes |-> TypeAccess({"Counter"}),
     mode |-> "PURE", runs_alone |-> FALSE]

Descriptors == {NormalSystem, DevSystem, ReadonlySystem, PureSystem}

_pattern_allows(pattern, component_type) ==
    CASE pattern.pattern = "AllAccess" -> TRUE
      [] pattern.pattern = "NoAccess" -> FALSE
      [] pattern.pattern = "TypeAccess" -> component_type \in pattern.types
      [] OTHER -> FALSE

can_read_type(descriptor, component_type) ==
    \/ _pattern_allows(descriptor.reads, component_type)
    \/ _pattern_allows(descriptor.writes, component_type)

can_write_type(descriptor, component_type) ==
    _pattern_allows(descriptor.writes, component_type)

is_dev_mode(descriptor) == descriptor.runs_alone

---------------------------------------------------------------------------
(* ScopedAccess.  Every operation is an operator of the descriptor, the    *)
(* buffer and the storage; a reading one yields its outcome, a writing one *)
(* the record [out, buffer, st] of its outcome, the buffer and the storage *)
(* after the call.  An outcome is what the call returned or the exception  *)
(* it raised.                                                              *)

Returned(v) == [raised |-> "none", value |-> v]

Raised(e) == [raised |-> e, value |-> None]

\* a check that lets every read pass (differs from _check_readable)
_check_readable_passes(descriptor, types) == "none"

\* the exception the check raises for the types, "none" when it passes
_check_readable(descriptor, types) ==
    IF is_dev_mode(descriptor) THEN "none"
    ELSE IF \E i \in 1 .. Len(types) : ~can_read_type(descriptor, types[i])
    THEN "AccessViolationError"
    ELSE "none"

_check_writable(descriptor, component_type) ==
    IF is_dev_mode(descriptor) THEN "none"
    ELSE IF descriptor.mode = "READONLY" THEN "AccessViolationError"
    ELSE IF can_write_type(descriptor, component_type) THEN "none"
    ELSE "AccessViolationError"

\* the first component of the type in a list of inserts, None when there is none
FirstOfType(components, component_type) ==
    LET at == {j \in 1 .. Len(components) : get_type(components[j]) = component_type}
    IN IF at = {} THEN None
       ELSE components[CHOOSE j \in at : \A k \in at : j <= k]

get_async(descriptor, buffer, st, entity, component_type) ==
    IF _check_readable(descriptor, <<component_type>>) # "none"
    THEN Raised(_check_readable(descriptor, <<component_type>>))
    ELSE IF /\ entity \in DOMAIN updates(buffer)
            /\ component_type \in DOMAIN updates(buffer)[entity]
    THEN Returned(updates(buffer)[entity][component_type])
    ELSE IF /\ entity \in DOMAIN inserts(buffer)
            /\ FirstOfType(inserts(buffer)[entity], component_type) # None
    THEN Returned(FirstOfType(inserts(buffer)[entity], component_type))
    ELSE IF get_component(st, entity, component_type) # None
    THEN Returned(get_component(st, entity, component_type))
    ELSE Raised("KeyError")

InSeq(x, s) == \E j \in 1 .. Len(s) : s[j] = x

has(descriptor, buffer, st, entity, component_type) ==
    IF _check_readable(descriptor, <<component_type>>) # "none"
    THEN Raised(_check_readable(descriptor, <<component_type>>))
    ELSE IF /\ entity \in DOMAIN inserts(buffer)
            /\ FirstOfType(inserts(buffer)[entity], component_type) # None
    THEN Returned(TRUE)
    ELSE IF /\ entity \in DOMAIN removes(buffer)
            /\ InSeq(component_type, removes(buffer)[entity])
    THEN Returned(FALSE)
    ELSE Returned(has_component(st, entity, component_type))

\* the (entity, components) pairs the iterator yields, as a set
_query_raw_async(buffer, st, component_types) ==
    LET n == Len(component_types)
        destroyed(e) == InSeq(e, destroys(buffer))
        removed(e, t) == e \in DOMAIN removes(buffer) /\ InSeq(t, removes(buffer)[e])
        updated(e, t) == e \in DOMAIN updates(buffer) /\ t \in DOMAIN updates(buffer)[e]
        \* first loop: the matches of storage, with buffered updates laid over them
        fromStorage == {p \in query(st, component_types) :
                          /\ ~destroyed(p[1])
                          /\ \A i \in 1 .. n : ~removed(p[1], component_types[i])}
        yielded_entities == {p[1] : p \in fromStorage}
        first == {<<p[1], [i \in 1 .. n |->
                              IF updated(p[1], component_types[i])
                              THEN updates(buffer)[p[1]][component_types[i]]
                              ELSE p[2][i]]>> : p \in fromStorage}
        \* second loop: entities with buffered updates or inserts not yielded yet
        staged(e, t) ==
            IF updated(e, t) THEN updates(buffer)[e][t]
            ELSE IF /\ e \in DOMAIN inserts(buffer)
                    /\ FirstOfType(inserts(buffer)[e], t) # None
            THEN FirstOfType(inserts(buffer)[e], t)
            ELSE get_component(st, e, t)
        has_all == {e \in (DOMAIN updates(buffer) \cup DOMAIN inserts(buffer))
                              \ yielded_entities :
                      /\ ~destroyed(e)
                      /\ \A i \in 1 .. n : /\ ~removed(e, component_types[i])
                                           /\ staged(e, component_types[i]) # None}
        second == {<<e, [i \in 1 .. n |-> staged(e, component_types[i])]>> : e \in has_all}
    IN first \cup second

\* ScopedAccess.query / query_async
query_async(descriptor, buffer, st, component_types) ==
    IF _check_readable(descriptor, component_types) # "none"
    THEN Raised(_check_readable(descriptor, component_types))
    ELSE Returned(_query_raw_async(buffer, st, component_types))

(* The writing operations.  SystemResult.updates, .inserts, .removes,     *)
(* .spawns and .destroys build a new dict or list from the op log at every *)
(* access, so what an operation stores into one of them is gone with it:   *)
(* `buffer.updates[entity] = {}` leaves the log as it was and the lookup   *)
(* `buffer.updates[entity]` that follows raises KeyError unless the log    *)
(* already holds an update of the entity.                                  *)

\* a write that also stores the component into storage (differs from update)
update_write_through(descriptor, buffer, st, entity, component) ==
    IF _check_writable(descriptor, get_type(component)) # "none"
    THEN [out |-> Raised(_check_writable(descriptor, get_type(component))),
          buffer |-> buffer, st |-> st]
    ELSE [out |-> Returned(None), buffer |-> record_update(buffer, entity, component),
          st |-> set_component(st, entity, component)]

update(descriptor, buffer, st, entity, component) ==
    IF _check_writable(descriptor, get_type(component)) # "none"
    THEN [out |-> Raised(_check_writable(descriptor, get_type(component))),
          buffer |-> buffer, st |-> st]
    ELSE IF entity \notin DOMAIN updates(buffer)
    THEN [out |-> Raised("KeyError"), buffer |-> buffer, st |-> st]
    ELSE [out |-> Returned(None), buffer |-> buffer, st |-> st]

update_singleton(descriptor, buffer, st, component) ==
    IF _check_writable(descriptor, get_type(component)) # "none"
    THEN [out |-> Raised(_check_writable(descriptor, get_type(component))),
          buffer |-> buffer, st |-> st]
    ELSE IF WORLD \notin DOMAIN updates(buffer)
    THEN [out |-> Raised("KeyError"), buffer |-> buffer, st |-> st]
    ELSE [out |-> Returned(None), buffer |-> buffer, st |-> st]

\* an insert that also stores the component into storage (differs from insert)
insert_write_through(descriptor, buffer, st, entity, component) ==
    IF _check_writable(descriptor, get_type(component)) # "none"
    THEN [out |-> Raised(_check_writable(descriptor, get_type(component))),
          buffer |-> buffer, st |-> st]
    ELSE [out |-> Returned(None), buffer |-> record_insert(buffer, entity, component),
          st |-> set_component(st, entity, component)]

insert(descriptor, buffer, st, entity, component) ==
    IF _check_writable(descriptor, get_type(component)) # "none"
    THEN [out |-> Raised(_check_writable(descriptor, get_type(component))),
          buffer |-> buffer, st |-> st]
    ELSE IF entity \notin DOMAIN inserts(buffer)
    THEN [out |-> Raised("KeyError"), buffer |-> buffer, st |-> st]
    ELSE [out |-> Returned(None), buffer |-> buffer, st |-> st]

remove(descriptor, buffer, st, entity, component_type) ==
    IF _check_writable(descriptor, component_type) # "none"
    THEN [out |-> Raised(_check_writable(descriptor, component_type)),
          buffer |-> buffer, st |-> st]
    ELSE IF entity \notin DOMAIN removes(buffer)
    THEN [out |-> Raised("KeyError"), buffer |-> buffer, st |-> st]
    ELSE [out |-> Returned(None), buffer |-> buffer, st |-> st]

\* ScopedAccess.spawn: the append goes to a list built for the access, and the
\* provisional id is made of the length of another one
access_spawn(descriptor, buffer, st, components) ==
    IF \E j \in 1 .. Len(components) :
            _check_writable(descriptor, get_type(components[j])) # "none"
    THEN [out |-> Raised("AccessViolationError"), buffer |-> buffer, st |-> st]
    ELSE [out |-> Returned(EntityId(0 - Len(spawns(buffer)), 0)),
          buffer |-> buffer, st |-> st]

\* ScopedAccess.destroy: the append goes to a list built for the access
access_destroy(descriptor, buffer, st, entity) ==
    [out |-> Returned(None), buffer |-> buffer, st |-> st]

---------------------------------------------------------------------------
(* World.execute_system_async, from the return of the system's body on *)

\* normalize_result of None or of a SystemResult
normalize_result(raw) == IF raw = None THEN EmptyResult ELSE raw

\* The returned value is merged into the buffer and the result is validated
\* against `descriptor.writable_types()`, which SystemDescriptor does not
\* define: evaluating the argument raises AttributeError.
execute_system_async(descriptor, buffer, returned) ==
    LET result_buffer == IF returned # None
                         THEN merge(buffer, normalize_result(returned).ops)
                         ELSE buffer
    IN [out |-> Raised("AttributeError"), buffer |-> result_buffer]

---------------------------------------------------------------------------
(* merge_last_writer_wins.  `merged` is a SystemResult, so what the loop   *)
(* stores into merged.updates, .inserts, .removes, .spawns and .destroys   *)
(* goes to dicts and lists built for that access; the lookup               *)
(* `merged.updates[entity]` raises KeyError when the log of merged holds   *)
(* no update of the entity.                                                *)

\* one round of `for result in results`
MergeRound(merged, r) ==
    IF \E e \in DOMAIN updates(r) : e \notin DOMAIN updates(merged)
    THEN Raised("KeyError")
    ELSE IF \E e \in DOMAIN inserts(r) : e \notin DOMAIN inserts(merged)
    THEN Raised("KeyError")
    ELSE IF \E e \in DOMAIN removes(r) : e \notin DOMAIN removes(merged)
    THEN Raised("KeyError")
    ELSE Returned(merged)

RECURSIVE MergeRounds(_, _)
MergeRounds(merged, results) ==
    IF results = <<>> THEN Returned(merged)
    ELSE LET m == MergeRound(merged, Head(results))
         IN IF m.raised # "none" THEN m ELSE MergeRounds(m.value, Tail(results))

merge_last_writer_wins(results) == MergeRounds(EmptyResult, results)

\* SimpleScheduler._merge_results under MergeStrategy.LAST_WRITER_WINS
_merge_results(cfg, results) ==
    IF cfg.merge_strategy = "LAST_WRITER_WINS"
    THEN merge_last_writer_wins(results)
    ELSE Raised("ValueError")

\* SimpleScheduler._execute_group_async once the results are gathered:
\* merge them and apply the merged result
_execute_group_async(st, cfg, results) ==
    LET m == _merge_results(cfg, results)
    IN IF m.raised # "none"
       THEN [raised |-> m.raised, st |-> st, new_entities |-> <<>>]
       ELSE [raised |-> "none", st |-> apply_result_async(st, m.value).st,
             new_entities |-> apply_result_async(st, m.value).new_entities]

---------------------------------------------------------------------------
(* SimpleScheduler: configuration, plan and tasks *)

RetryPolicy(n, on_exhausted) == [max_attempts |-> n, on_exhausted |-> on_exhausted]

\* max_concurrent = None
NoLimit == [limited |-> FALSE, value |-> 0]

\* max_concurrent = k
Limit(k) == [limited |-> TRUE, value |-> k]

SchedulerConfig(policy, max_concurrent) ==
    [merge_strategy |-> "LAST_WRITER_WINS", retry_policy |-> policy,
     max_concurrent |-> max_concurrent]

\* the configurations of the model: no retry (the default), and retry with
\* either way of ending when the attempts are used up; concurrency unlimited
\* (the default) or capped
Configs ==
    {SchedulerConfig(policy, max_concurrent) :
        policy \in {RetryPolicy(1, "fail"), RetryPolicy(MaxAttempts, "fail"),
                    RetryPolicy(MaxAttempts, "skip")},
        max_concurrent \in {NoLimit, Limit(MaxConcurrent)}}

\* _execution_plan = None
NoPlan == [built |-> FALSE, groups |-> <<>>]

\* a builder that puts the group of the other systems first (differs from build)
build_normal_first(descriptors) ==
    LET positions == [i \in 1 .. Len(descriptors) |-> i]
        dev_systems == SelectSeq(positions, LAMBDA i : is_dev_mode(descriptors[i]))
        normal_systems == SelectSeq(positions, LAMBDA i : ~is_dev_mode(descriptors[i]))
    IN (IF normal_systems # <<>> THEN <<normal_systems>> ELSE <<>>)
       \o [j \in 1 .. Len(dev_systems) |-> <<dev_systems[j]>>]

\* SingleGroupBuilder.build: a group is the list of the positions its systems
\* have in _systems
build(descriptors) ==
    LET positions == [i \in 1 .. Len(descriptors) |-> i]
        dev_systems == SelectSeq(positions, LAMBDA i : is_dev_mode(descriptors[i]))
        normal_systems == SelectSeq(positions, LAMBDA i : ~is_dev_mode(descriptors[i]))
    IN [j \in 1 .. Len(dev_systems) |-> <<dev_systems[j]>>]
       \o (IF normal_systems # <<>> THEN <<normal_systems>> ELSE <<>>)

build_execution_plan(descriptors) == [built |-> TRUE, groups |-> build(descriptors)]

\* a task of a system: the coroutine _execute_with_retry of one tick
IdleTask ==
    [status |-> "idle", attempt |-> 0, buffer |-> EmptyResult,
     issued |-> None, error |-> "none"]

\* a task dispatched under max_concurrent: limited_execute at `async with semaphore`
WaitingTask ==
    [status |-> "waiting", attempt |-> 0, buffer |-> EmptyResult,
     issued |-> None, error |-> "none"]

\* a task dispatched: its first execute_system_async has a new buffer
StartedTask ==
    [status |-> "running", attempt |-> 1, buffer |-> EmptyResult,
     issued |-> None, error |-> "none"]

\* a retry that goes on with the buffer of the attempt that raised, and
\* hands it on when the attempts are used up (differs from _execute_with_retry)
_execute_with_retry_keeps_buffer(task, raised, policy) ==
    IF policy.max_attempts <= 1
    THEN [task EXCEPT !.status = "failed", !.error = raised]
    ELSE IF task.attempt < policy.max_attempts
    THEN [task EXCEPT !.attempt = @ + 1, !.issued = None]
    ELSE IF policy.on_exhausted = "skip"
    THEN [task EXCEPT !.status = "done"]
    ELSE [task EXCEPT !.status = "failed", !.error = "RuntimeError"]

\* _execute_with_retry after an attempt raised.  tenacity retries on any
\* exception until stop_after_attempt(max_attempts), then raises RetryError.
_execute_with_retry(task, raised, policy) ==
    IF policy.max_attempts <= 1
    THEN [task EXCEPT !.status = "failed", !.error = raised, !.buffer = EmptyResult]
    ELSE IF task.attempt < policy.max_attempts
    THEN [task EXCEPT !.attempt = @ + 1, !.buffer = EmptyResult, !.issued = None]
    ELSE IF policy.on_exhausted = "skip"
    THEN [task EXCEPT !.status = "done", !.buffer = EmptyResult]
    ELSE [task EXCEPT !.status = "failed", !.error = "RuntimeError", !.buffer = EmptyResult]

IdleTick == [phase |-> "idle", group |-> 0, raised |-> "none"]

\* a tick that goes on to the next group although the last one raised
\* (differs from tick_async)
tick_async_goes_on(plan, group, raised) ==
    IF group < Len(plan.groups)
    THEN [phase |-> "running", group |-> group + 1, raised |-> raised]
    ELSE [phase |-> "idle", group |-> group, raised |-> raised]

\* tick_async after _execute_group_async of group number `group` ended:
\* an exception ends the tick, else the next group is executed
tick_async(plan, group, raised) ==
    IF raised # "none"
    THEN [phase |-> "idle", group |-> group, raised |-> raised]
    ELSE IF group < Len(plan.groups)
    THEN [phase |-> "running", group |-> group + 1, raised |-> "none"]
    ELSE [phase |-> "idle", group |-> group, raised |-> "none"]

\* the members of the group tick_async is at
Members(plan, t) ==
    IF t.phase = "running" THEN {plan.groups[t.group][j] : j \in 1 .. Len(plan.groups[t.group])}
    ELSE {}

\* _execute_systems_async: one task per system of the group
Dispatch(ts, plan, t, cfg) ==
    [i \in 1 .. Len(ts) |->
        IF i \in Members(plan, t)
        THEN (IF cfg.max_concurrent.limited THEN WaitingTask ELSE StartedTask)
        ELSE ts[i]]

\* asyncio.Semaphore(max_concurrent) of the group tick_async goes to
Semaphore(cfg, t) ==
    IF t.phase = "running" /\ cfg.max_concurrent.limited
    THEN cfg.max_concurrent.value ELSE 0

\* an acquire that never waits (differs from acquire)
acquire_goes_in(sem) == [acquired |-> TRUE, sem |-> sem - 1]

\* Semaphore.acquire: goes in and takes one when the value is positive,
\* waits otherwise
acquire(sem) == [acquired |-> sem > 0, sem |-> sem - 1]

\* Semaphore.release, at the exit of `async with semaphore` when the task
\* ended (a retry stays inside it)
release(cfg, sem, task) ==
    IF cfg.max_concurrent.limited /\ task.status # "running" THEN sem + 1 ELSE sem

NoCall == [sys |-> 0, op |-> "none"]

\* the record of a call: `uncaught` tells that its exception left the body
Outcome(call, uncaught) ==
    [sys |-> call.sys, op |-> call.op, entity |-> call.entity, arg |-> call.arg,
     out |-> call.out, uncaught |-> uncaught]

\* the result before World.apply_result or the scheduler committed it
NotApplied == [how |-> "none", split |-> 0, raised |-> "none"]

\* no call was made on the World yet
NoWorldCall == [op |-> "none"]

\* no handle was issued or destroyed yet
NoHandles == [issued |-> {}, destroyed |-> {}]

\* ComponentRegistry(): both maps are empty
EmptyRegistry == [by_type |-> EmptyDict, by_type_id |-> EmptyDict]

\* no thread is in ComponentRegistry.register
NoThreads == <<>>

\* normalize_access was not called yet
NotNormalized == [at |-> "none"]

\* World.snapshot() was not called yet
NotPickled == [taken |-> FALSE, restored |-> FALSE, changes |-> 0]

---------------------------------------------------------------------------
(* Spec: one World and its SimpleScheduler, tick after tick.  A system's   *)
(* body is any sequence of calls on its ScopedAccess about the entity E1   *)
(* and the singleton entity, ended by its return.                          *)

Init ==
    /\ storage \in TickWorlds
    /\ result = EmptyResult
    /\ applied = NotApplied
    /\ new_entities = <<>>
    /\ systems = <<>>
    /\ execution_plan = NoPlan
    /\ config \in Configs
    /\ tick = IdleTick
    /\ tasks = <<>>
    /\ snapshot = storage
    /\ lastCall = NoCall
    /\ semaphore = 0
    /\ recorded = <<>>
    /\ world_call = NoWorldCall
    /\ handles = NoHandles
    /\ pickled = NotPickled
    /\ registry = EmptyRegistry
    /\ threads = NoThreads
    /\ normalized = NotNormalized

\* World.register_system -> SimpleScheduler.register_system, between ticks
RegisterSystem(descriptor) ==
    /\ tick.phase = "idle"
    /\ Len(systems) < MaxSystems
    /\ systems' = Append(systems, descriptor)
    /\ execution_plan' = NoPlan
    /\ tasks' = Append(tasks, IdleTask)
    /\ lastCall' = NoCall
    /\ UNCHANGED <<recorded, world_call, handles, pickled,
                   registry, threads, normalized>>
    /\ UNCHANGED <<storage, result, applied, new_entities, config, tick, snapshot,
                   semaphore>>

\* World.tick_async up to the dispatch of the first group
TickStart ==
    /\ tick.phase = "idle"
    /\ LET plan == IF execution_plan.built THEN execution_plan
                   ELSE build_execution_plan(systems)
           first == IF plan.groups = <<>> THEN IdleTick
                    ELSE [phase |-> "running", group |-> 1, raised |-> "none"]
       IN /\ execution_plan' = plan
          /\ tick' = first
          /\ tasks' = Dispatch([i \in 1 .. Len(tasks) |-> IdleTask], plan, first, config)
          /\ semaphore' = Semaphore(config, first)
    /\ snapshot' = storage
    /\ lastCall' = NoCall
    /\ UNCHANGED <<recorded, world_call, handles, pickled,
                   registry, threads, normalized>>
    /\ UNCHANGED <<storage, result, applied, new_entities, systems, config>>

\* system i is executing
Running(i) ==
    /\ tick.phase = "running"
    /\ i \in Members(execution_plan, tick)
    /\ tasks[i].status = "running"

\* limited_execute of system i goes into `async with semaphore`: the tasks
\* reach the semaphore in the order of the group and wait in that order
Acquire(i) ==
    /\ tick.phase = "running"
    /\ i \in Members(execution_plan, tick)
    /\ tasks[i].status = "waiting"
    /\ \A j \in Members(execution_plan, tick) : j < i => tasks[j].status # "waiting"
    /\ acquire(semaphore).acquired
    /\ semaphore' = acquire(semaphore).sem
    /\ tasks' = [tasks EXCEPT ![i] = StartedTask]
    /\ UNCHANGED <<recorded, world_call, handles, pickled,
                   registry, threads, normalized>>
    /\ UNCHANGED <<storage, result, applied, new_entities, systems, execution_plan,
                   config, tick, snapshot, lastCall>>

\* The step of system i making `call` with r = [out, buffer, st].  An
\* exception either is caught by the body, which goes on, or leaves the body
\* and execute_system_async and reaches _execute_with_retry.
Called(i, call, r, issued) ==
    /\ storage' = r.st
    /\ LET task == [tasks[i] EXCEPT !.buffer = r.buffer, !.issued = issued]
       IN \/ /\ tasks' = [tasks EXCEPT ![i] = task]
             /\ lastCall' = Outcome(call, FALSE)
             /\ semaphore' = semaphore
          \/ /\ r.out.raised # "none"
             /\ tasks' = [tasks EXCEPT ![i] =
                            _execute_with_retry(task, r.out.raised, config.retry_policy)]
             /\ lastCall' = Outcome(call, TRUE)
             /\ semaphore' = release(config, semaphore, tasks'[i])
    /\ UNCHANGED <<recorded, world_call, handles, pickled,
                   registry, threads, normalized>>
    /\ UNCHANGED <<result, applied, new_entities, systems, execution_plan, config,
                   tick, snapshot>>

Unchanged(i) == [out |-> Returned(None), buffer |-> tasks[i].buffer, st |-> storage]

Get(i) ==
    /\ Running(i)
    /\ \E t \in Types :
        LET out == get_async(systems[i], tasks[i].buffer, storage, E1, t)
        IN Called(i, [sys |-> i, op |-> "get", entity |-> E1, arg |-> t, out |-> out],
                  [Unchanged(i) EXCEPT !.out = out], tasks[i].issued)

Has(i) ==
    /\ Running(i)
    /\ \E t \in Types :
        LET out == has(systems[i], tasks[i].buffer, storage, E1, t)
        IN Called(i, [sys |-> i, op |-> "has", entity |-> E1, arg |-> t, out |-> out],
                  [Unchanged(i) EXCEPT !.out = out], tasks[i].issued)

Query(i) ==
    /\ Running(i)
    /\ \E t \in Types :
        LET out == query_async(systems[i], tasks[i].buffer, storage, <<t>>)
        IN Called(i, [sys |-> i, op |-> "query", entity |-> E1, arg |-> t, out |-> out],
                  [Unchanged(i) EXCEPT !.out = out], tasks[i].issued)

\* `issued` remembers the component of the update when the access check let it pass
Update(i) ==
    /\ Running(i)
    /\ \E c \in Written :
        LET r == update(systems[i], tasks[i].buffer, storage, E1, c)
        IN Called(i, [sys |-> i, op |-> "update", entity |-> E1, arg |-> c, out |-> r.out],
                  r, IF _check_writable(systems[i], get_type(c)) = "none"
                     THEN c ELSE tasks[i].issued)

UpdateSingleton(i) ==
    /\ Running(i)
    /\ \E c \in Written :
        LET r == update_singleton(systems[i], tasks[i].buffer, storage, c)
        IN Called(i, [sys |-> i, op |-> "update_singleton", entity |-> WORLD, arg |-> c,
                      out |-> r.out], r, tasks[i].issued)

Insert(i) ==
    /\ Running(i)
    /\ \E c \in Written :
        LET r == insert(systems[i], tasks[i].buffer, storage, E1, c)
        IN Called(i, [sys |-> i, op |-> "insert", entity |-> E1, arg |-> c, out |-> r.out],
                  r, tasks[i].issued)

Remove(i) ==
    /\ Running(i)
    /\ \E t \in Types :
        LET r == remove(systems[i], tasks[i].buffer, storage, E1, t)
        IN Called(i, [sys |-> i, op |-> "remove", entity |-> E1, arg |-> t, out |-> r.out],
                  r, tasks[i].issued)

Spawn(i) ==
    /\ Running(i)
    /\ \E cs \in {<<>>} \cup {<<c>> : c \in Written} :
        LET r == access_spawn(systems[i], tasks[i].buffer, storage, cs)
        IN Called(i, [sys |-> i, op |-> "spawn", entity |-> WORLD, arg |-> cs, out |-> r.out],
                  r, tasks[i].issued)

Destroy(i) ==
    /\ Running(i)
    /\ LET r == access_destroy(systems[i], tasks[i].buffer, storage, E1)
       IN Called(i, [sys |-> i, op |-> "destroy", entity |-> E1, arg |-> None, out |-> r.out],
                 r, tasks[i].issued)

\* the body of system i returns (None, or a SystemResult of one update) and
\* execute_system_async goes to its end
SystemReturn(i) ==
    /\ Running(i)
    /\ \E returned \in {None} \cup {record_update(EmptyResult, E1, c) : c \in Written} :
        LET e == execute_system_async(systems[i], tasks[i].buffer, returned)
            task == [tasks[i] EXCEPT !.buffer = e.buffer]
        IN /\ tasks' = [tasks EXCEPT ![i] =
                        IF e.out.raised = "none" THEN [task EXCEPT !.status = "done"]
                        ELSE _execute_with_retry(task, e.out.raised, config.retry_policy)]
           /\ lastCall' = Outcome([sys |-> i, op |-> "return", entity |-> E1,
                                    arg |-> returned, out |-> e.out],
                                   e.out.raised # "none")
           /\ semaphore' = release(config, semaphore, tasks'[i])
    /\ UNCHANGED <<recorded, world_call, handles, pickled,
                   registry, threads, normalized>>
    /\ UNCHANGED <<storage, result, applied, new_entities, systems, execution_plan,
                   config, tick, snapshot>>

\* the results of the group in the order of its systems
Results(ts, plan, t) ==
    [j \in 1 .. Len(plan.groups[t.group]) |-> ts[plan.groups[t.group][j]].buffer]

\* asyncio.gather returned the results of every task of the group:
\* _execute_group_async merges and applies them, tick_async goes to the next group
GroupCommit ==
    /\ tick.phase = "running"
    /\ \A i \in Members(execution_plan, tick) : tasks[i].status = "done"
    /\ LET g == _execute_group_async(storage, config, Results(tasks, execution_plan, tick))
           next == tick_async(execution_plan, tick.group, g.raised)
       IN /\ storage' = g.st
          /\ tick' = next
          /\ tasks' = Dispatch(tasks, execution_plan, next, config)
          /\ semaphore' = Semaphore(config, next)
          /\ snapshot' = IF next.phase = "running" THEN g.st ELSE snapshot
          /\ lastCall' = IF next.phase = "running" THEN NoCall ELSE lastCall
    /\ UNCHANGED <<recorded, world_call, handles, pickled,
                   registry, threads, normalized>>
    /\ UNCHANGED <<result, applied, new_entities, systems, execution_plan, config>>

\* asyncio.gather raised the exception of a failed task: it leaves
\* _execute_group_async and tick_async; the tasks still running are abandoned
GroupFail ==
    /\ tick.phase = "running"
    /\ \E i \in Members(execution_plan, tick) :
        /\ tasks[i].status = "failed"
        /\ LET next == tick_async(execution_plan, tick.group, tasks[i].error)
               left == [k \in 1 .. Len(tasks) |->
                          IF tasks[k].status \in {"running", "waiting"}
                          THEN [tasks[k] EXCEPT !.status = "cancelled"] ELSE tasks[k]]
           IN /\ tick' = next
              /\ tasks' = Dispatch(left, execution_plan, next, config)
              /\ semaphore' = Semaphore(config, next)
              /\ snapshot' = IF next.phase = "running" THEN storage ELSE snapshot
              /\ lastCall' = IF next.phase = "running" THEN NoCall ELSE lastCall
    /\ UNCHANGED <<recorded, world_call, handles, pickled,
                   registry, threads, normalized>>
    /\ UNCHANGED <<storage, result, applied, new_entities, systems, execution_plan, config>>

Next ==
    \/ \E d \in Descriptors : RegisterSystem(d)
    \/ TickStart
    \/ \E i \in 1 .. Len(systems) : Acquire(i)
    \/ \E i \in 1 .. Len(systems) : Get(i)
    \/ \E i \in 1 .. Len(systems) : Has(i)
    \/ \E i \in 1 .. Len(systems) : Query(i)
    \/ \E i \in 1 .. Len(systems) : Update(i)
    \/ \E i \in 1 .. Len(systems) : UpdateSingleton(i)
    \/ \E i \in 1 .. Len(systems) : Insert(i)
    \/ \E i \in 1 .. Len(systems) : Remove(i)
    \/ \E i \in 1 .. Len(systems) : Spawn(i)
    \/ \E i \in 1 .. Len(systems) : Destroy(i)
    \/ \E i \in 1 .. Len(systems) : SystemReturn(i)
    \/ GroupCommit
    \/ GroupFail

Spec == Init /\ [][Next]_vars

\* SpecLive: the ticks of Spec under the scheduling of the event loop, with
\* bodies that get, update, insert, remove, spawn, destroy and return.  A
\* task that can go into the semaphore does so (asyncio.Semaphore wakes its
\* waiters in order), the body of a system that is executing terminates:
\* it returns, and asyncio.gather hands its outcome, the results of every
\* task or the exception of the first failed one, to _execute_group_async.
\* Each of these steps changes the tick or a task.
progress == <<tick, tasks, semaphore>>

NextLive ==
    \/ \E d \in Descriptors : RegisterSystem(d)
    \/ TickStart
    \/ \E i \in 1 .. Len(systems) : Acquire(i)
    \/ \E i \in 1 .. Len(systems) : Get(i)
    \/ \E i \in 1 .. Len(systems) : Update(i)
    \/ \E i \in 1 .. Len(systems) : UpdateSingleton(i)
    \/ \E i \in 1 .. Len(systems) : Insert(i)
    \/ \E i \in 1 .. Len(systems) : Remove(i)
    \/ \E i \in 1 .. Len(systems) : Spawn(i)
    \/ \E i \in 1 .. Len(systems) : Destroy(i)
    \/ \E i \in 1 .. Len(systems) : SystemReturn(i)
    \/ GroupCommit
    \/ GroupFail

Fairness ==
    /\ \A i \in 1 .. MaxSystems : WF_progress(Acquire(i))
    /\ \A i \in 1 .. MaxSystems : WF_progress(SystemReturn(i))
    /\ WF_progress(GroupCommit)
    /\ WF_progress(GroupFail)

SpecLive == Init /\ [][NextLive]_vars /\ Fairness

---------------------------------------------------------------------------
(* SpecCommit: a SystemResult is recorded op by op and then committed to   *)
(* one World, either by World.apply_result or, cut in two results as two   *)
(* systems of a group return them, by the scheduler's merge and apply.     *)
(* snapshot keeps the storage as it was before the commit.                 *)

\* the entities the recorded ops are about: E1 and the next holder of its index
OpEntities == {EntityId(RESERVED_COUNT, g) : g \in 0 .. 1}

\* the provisional id ScopedAccess.spawn makes for the k-th spawn of a buffer
Provisional(k) == EntityId(0 - k, 0)

\* the entities the recorded updates and inserts are about: those, and the
\* provisional id of the first spawn
WriteTargets == OpEntities \cup {Provisional(1)}

\* the component tuples of the recorded spawns
SpawnTuples == {<<>>} \cup {<<Component("Counter", v)>> : v \in Values}

InitCommit ==
    /\ storage \in InitialWorlds
    /\ result = EmptyResult
    /\ applied = NotApplied
    /\ new_entities = <<>>
    /\ systems = <<>>
    /\ execution_plan = NoPlan
    /\ config = SchedulerConfig(RetryPolicy(1, "fail"), NoLimit)
    /\ tick = IdleTick
    /\ tasks = <<>>
    /\ snapshot = storage
    /\ lastCall = NoCall
    /\ semaphore = 0
    /\ recorded = <<>>
    /\ world_call = NoWorldCall
    /\ handles = NoHandles
    /\ pickled = NotPickled
    /\ registry = EmptyRegistry
    /\ threads = NoThreads
    /\ normalized = NotNormalized

\* the result can take one more op: it was not committed or read through yet
Recording == applied = NotApplied /\ lastCall = NoCall /\ Len(result.ops) < MaxOps

RecordUpdate ==
    /\ Recording
    /\ \E e \in WriteTargets, c \in Components :
        /\ result' = record_update(result, e, c)
        /\ recorded' = Append(recorded, [kind |-> "update", entity |-> e, component |-> c])
    /\ UNCHANGED <<world_call, handles, pickled,
                   registry, threads, normalized>>
    /\ UNCHANGED <<storage, applied, new_entities, systems, execution_plan, config,
                   tick, tasks, snapshot, lastCall, semaphore>>

RecordInsert ==
    /\ Recording
    /\ \E e \in WriteTargets, c \in Components :
        /\ result' = record_insert(result, e, c)
        /\ recorded' = Append(recorded, [kind |-> "insert", entity |-> e, component |-> c])
    /\ UNCHANGED <<world_call, handles, pickled,
                   registry, threads, normalized>>
    /\ UNCHANGED <<storage, applied, new_entities, systems, execution_plan, config,
                   tick, tasks, snapshot, lastCall, semaphore>>

RecordRemove ==
    /\ Recording
    /\ \E e \in OpEntities, t \in Types :
        /\ result' = record_remove(result, e, t)
        /\ recorded' = Append(recorded, [kind |-> "remove", entity |-> e, component_type |-> t])
    /\ UNCHANGED <<world_call, handles, pickled,
                   registry, threads, normalized>>
    /\ UNCHANGED <<storage, applied, new_entities, systems, execution_plan, config,
                   tick, tasks, snapshot, lastCall, semaphore>>

RecordSpawn ==
    /\ Recording
    /\ \E cs \in SpawnTuples :
        /\ result' = record_spawn(result, cs)
        /\ recorded' = Append(recorded, [kind |-> "spawn", spawn_components |-> cs])
    /\ UNCHANGED <<world_call, handles, pickled,
                   registry, threads, normalized>>
    /\ UNCHANGED <<storage, applied, new_entities, systems, execution_plan, config,
                   tick, tasks, snapshot, lastCall, semaphore>>

RecordDestroy ==
    /\ Recording
    /\ \E e \in OpEntities :
        /\ result' = record_destroy(result, e)
        /\ recorded' = Append(recorded, [kind |-> "destroy", entity |-> e])
    /\ UNCHANGED <<world_call, handles, pickled,
                   registry, threads, normalized>>
    /\ UNCHANGED <<storage, applied, new_entities, systems, execution_plan, config,
                   tick, tasks, snapshot, lastCall, semaphore>>

\* the results merged into the recorded one: each a log of two ops
OtherResults ==
    {record_destroy(record_update(EmptyResult, E1, Component("Counter", MaxVal)), E1),
     record_remove(record_insert(EmptyResult, E1, Component("Counter", 0)), E1, "Counter"),
     record_update(record_spawn(EmptyResult, <<>>), Provisional(1), Component("Counter", 0))}

\* what a record_* call was given: the op without its op_seq
Payload(op) == [f \in DOMAIN op \ {"op_seq"} |-> op[f]]

\* result.merge(other)
RecordMerge ==
    /\ Recording
    /\ \E other \in OtherResults :
        /\ result' = merge(result, other.ops)
        /\ recorded' = recorded \o [j \in 1 .. Len(other.ops) |-> Payload(other.ops[j])]
    /\ UNCHANGED <<world_call, handles, pickled,
                   registry, threads, normalized>>
    /\ UNCHANGED <<storage, applied, new_entities, systems, execution_plan, config,
                   tick, tasks, snapshot, lastCall, semaphore>>

\* World.apply_result(result)
ApplyResult ==
    /\ applied = NotApplied
    /\ storage' = apply_result_async(storage, result).st
    /\ new_entities' = apply_result_async(storage, result).new_entities
    /\ applied' = [how |-> "apply_result", split |-> 0, raised |-> "none"]
    /\ UNCHANGED <<recorded, world_call, handles, pickled,
                   registry, threads, normalized>>
    /\ UNCHANGED <<result, systems, execution_plan, config, tick, tasks, snapshot, lastCall, semaphore>>

\* the results of two systems: the first k ops of the log and the ops after them
SplitResults(r, k) ==
    <<merge(EmptyResult, SubSeq(r.ops, 1, k)),
      merge(EmptyResult, SubSeq(r.ops, k + 1, Len(r.ops)))>>

\* SimpleScheduler._execute_group_async on the results of a group of two systems
CommitGroup ==
    /\ applied = NotApplied
    /\ \E k \in 0 .. Len(result.ops) :
        LET g == _execute_group_async(storage, config, SplitResults(result, k))
        IN /\ storage' = g.st
           /\ new_entities' = g.new_entities
           /\ applied' = [how |-> "group", split |-> k, raised |-> g.raised]
    /\ UNCHANGED <<recorded, world_call, handles, pickled,
                   registry, threads, normalized>>
    /\ UNCHANGED <<result, systems, execution_plan, config, tick, tasks, snapshot, lastCall, semaphore>>

NextCommit ==
    \/ RecordUpdate
    \/ RecordInsert
    \/ RecordRemove
    \/ RecordSpawn
    \/ RecordDestroy
    \/ RecordMerge
    \/ ApplyResult
    \/ CommitGroup

SpecCommit == InitCommit /\ [][NextCommit]_vars

---------------------------------------------------------------------------
(* SpecStorage: one World used from outside its systems: World.spawn,      *)
(* World.destroy and World.set on any handle.                              *)
(* SpecSnapshot: World.snapshot of a World, up to MaxChanges such calls,   *)
(* and World.restore into this World or into a newly constructed one.      *)

\* the handles the calls are made with: WORLD, the handles spawn returned,
\* alive or not, and the ones of the World the specification starts from
KnownHandles == {WORLD} \cup handles.issued \cup (DOMAIN storage.components \ {CLOCK})

\* the record of a call on the World: `live` and `existed` tell what
\* is_alive and `entity in _components` were for the entity before the call,
\* `after_free` the handle the call before it deallocated while it was
\* alive, if it did
WorldCall(op, st, entity, out, before) ==
    [op |-> op, entity |-> entity, out |-> out,
     live |-> is_alive(st, entity), existed |-> entity \in DOMAIN st.components,
     after_free |-> IF before.op = "destroy" /\ before.live /\ before.existed
                    THEN before.entity ELSE None]

\* one more call can be made after the snapshot
CanChange == pickled.taken => pickled.changes < MaxChanges

\* the snapshot, one call later
Changed(p) == IF p.taken THEN [p EXCEPT !.changes = @ + 1] ELSE p

InitStorage ==
    /\ storage = NewWorld
    /\ result = EmptyResult
    /\ applied = NotApplied
    /\ new_entities = <<>>
    /\ systems = <<>>
    /\ execution_plan = NoPlan
    /\ config = SchedulerConfig(RetryPolicy(1, "fail"), NoLimit)
    /\ tick = IdleTick
    /\ tasks = <<>>
    /\ snapshot = storage
    /\ lastCall = NoCall
    /\ semaphore = 0
    /\ recorded = <<>>
    /\ world_call = NoWorldCall
    /\ handles = NoHandles
    /\ pickled = NotPickled
    /\ registry = EmptyRegistry
    /\ threads = NoThreads
    /\ normalized = NotNormalized

\* World.spawn(*components)
WorldSpawn ==
    /\ CanChange
    /\ storage.free_list # <<>> \/ storage.next_index < RESERVED_COUNT + MaxEntities
    /\ \E cs \in SpawnTuples :
        LET s == spawn(storage, cs)
        IN /\ storage' = s.st
           /\ world_call' = WorldCall("spawn", storage, s.entity, s.entity, world_call)
           /\ handles' = [handles EXCEPT !.issued = @ \cup {s.entity}]
    /\ pickled' = Changed(pickled)
    /\ UNCHANGED <<registry, threads, normalized>>
    /\ UNCHANGED <<result, applied, new_entities, systems, execution_plan, config, tick,
                   tasks, snapshot, lastCall, semaphore, recorded>>

\* World.destroy(entity)
WorldDestroy ==
    /\ CanChange
    /\ Len(storage.free_list) < MaxFreed
    /\ \E e \in KnownHandles :
        /\ e.generation < MaxGeneration
        /\ storage' = destroy(storage, e)
        /\ world_call' = WorldCall("destroy", storage, e, None, world_call)
        /\ handles' = IF entity_exists(storage, e)
                      THEN [handles EXCEPT !.destroyed = @ \cup {e}] ELSE handles
    /\ pickled' = Changed(pickled)
    /\ UNCHANGED <<registry, threads, normalized>>
    /\ UNCHANGED <<result, applied, new_entities, systems, execution_plan, config, tick,
                   tasks, snapshot, lastCall, semaphore, recorded>>

\* World.set(entity, component)
WorldSet ==
    /\ CanChange
    /\ \E e \in KnownHandles, c \in {Component("Counter", MaxVal)} :
        /\ storage' = set(storage, e, c)
        /\ world_call' = WorldCall("set", storage, e, None, world_call)
    /\ pickled' = Changed(pickled)
    /\ UNCHANGED <<registry, threads, normalized>>
    /\ UNCHANGED <<result, applied, new_entities, systems, execution_plan, config, tick,
                   tasks, snapshot, lastCall, semaphore, recorded, handles>>

\* data = World.snapshot(), of the World as SpecSnapshot starts it
WorldSnapshot ==
    /\ ~pickled.taken
    /\ UNCHANGED <<registry, threads, normalized>>
    /\ world_call = NoWorldCall
    /\ pickled' = [taken |-> TRUE, restored |-> FALSE, changes |-> 0,
                   data |-> pickle_snapshot(storage), of |-> storage]
    /\ world_call' = WorldCall("snapshot", storage, WORLD, None, world_call)
    /\ UNCHANGED <<storage, result, applied, new_entities, systems, execution_plan, config,
                   tick, tasks, snapshot, lastCall, semaphore, recorded, handles>>

\* World.restore(data) on this World
WorldRestore ==
    /\ pickled.taken /\ ~pickled.restored
    /\ storage' = restore(storage, pickled.data)
    /\ pickled' = [pickled EXCEPT !.restored = TRUE]
    /\ UNCHANGED <<registry, threads, normalized>>
    /\ world_call' = WorldCall("restore", storage, WORLD, None, world_call)
    /\ UNCHANGED <<result, applied, new_entities, systems, execution_plan, config, tick,
                   tasks, snapshot, lastCall, semaphore, recorded, handles>>

\* World().restore(data): the snapshot goes into a newly constructed World,
\* which is the one the calls after it are made on
WorldRestoreFresh ==
    /\ pickled.taken /\ ~pickled.restored
    /\ storage' = restore(NewWorld, pickled.data)
    /\ pickled' = [pickled EXCEPT !.restored = TRUE]
    /\ UNCHANGED <<registry, threads, normalized>>
    /\ world_call' = WorldCall("restore", NewWorld, WORLD, None, world_call)
    /\ UNCHANGED <<result, applied, new_entities, systems, execution_plan, config, tick,
                   tasks, snapshot, lastCall, semaphore, recorded, handles>>

NextStorage ==
    \/ WorldSpawn
    \/ WorldDestroy
    \/ WorldSet

SpecStorage == InitStorage /\ [][NextStorage]_vars

\* the Worlds a snapshot is taken of
SnapshotWorlds == InitialWorlds \cup {set_singleton(WorldOfOne, Component("Counter", 0))}

InitSnapshot ==
    /\ storage \in SnapshotWorlds
    /\ result = EmptyResult
    /\ applied = NotApplied
    /\ new_entities = <<>>
    /\ systems = <<>>
    /\ execution_plan = NoPlan
    /\ config = SchedulerConfig(RetryPolicy(1, "fail"), NoLimit)
    /\ tick = IdleTick
    /\ tasks = <<>>
    /\ snapshot = storage
    /\ lastCall = NoCall
    /\ semaphore = 0
    /\ recorded = <<>>
    /\ world_call = NoWorldCall
    /\ handles = NoHandles
    /\ pickled = NotPickled
    /\ registry = EmptyRegistry
    /\ threads = NoThreads
    /\ normalized = NotNormalized

NextSnapshot ==
    \/ WorldSnapshot
    \/ pickled.taken /\ WorldSpawn
    \/ pickled.taken /\ WorldDestroy
    \/ pickled.taken /\ WorldSet
    \/ WorldRestore
    \/ WorldRestoreFresh

SpecSnapshot == InitSnapshot /\ [][NextSnapshot]_vars

---------------------------------------------------------------------------
(* SpecMerge: World.merge_entities and World.split_entity, called from     *)
(* outside a tick on a World of two entities, up to MaxCalls times.        *)

\* The shape of the class CombinableCounter, a user's class: whether it
\* defines __merge__ next to __combine__, and how it declares __split__.
\* The first shape is the one of the tests (__combine__, __split__(self));
\* the second defines the protocols of core/component/models.py
\* (__merge__(self, other) and __split__(self, ratio)), with __merge__
\* summing as __combine__ does.
ClassShapes ==
    {[merge |-> FALSE, split |-> "self"], [merge |-> TRUE, split |-> "self_ratio"]}

\* isinstance(comp, Mergeable): the class defines __merge__
Mergeable(shape, comp) == comp.type = "CombinableCounter" /\ shape.merge

\* isinstance(comp, Splittable): the class defines __split__
Splittable(shape, comp) == comp.type = "CombinableCounter"

\* comp1.__merge__(comp2)
merge_using_protocol(comp1, comp2) == combine(comp1, comp2)

merge_take_first(comp1, comp2) == comp1

\* comp.__split__(ratio) with ratio 0.5: the call raises TypeError when
\* __split__ takes no ratio; otherwise the value is halved.  A part is the
\* record of a component and of the object it is.
split_using_protocol(shape, comp, ratio) ==
    IF shape.split = "self" THEN Raised("TypeError")
    ELSE Returned(<<[component |-> Component(comp.type, comp.value \div 2), obj |-> "part1"],
                    [component |-> Component(comp.type, comp.value - comp.value \div 2),
                     obj |-> "part2"]>>)

\* (copy.deepcopy(comp), copy.deepcopy(comp))
split_to_both(comp, ratio) ==
    Returned(<<[component |-> comp, obj |-> "copy1"], [component |-> comp, obj |-> "copy2"]>>)

\* the types in the order the model walks a set of types; every type is
\* set once, so the order Python walks the set in does not show
TypeOrder == <<"Counter", "CombinableCounter">>

InTypes(S) == SelectSeq(TypeOrder, LAMBDA t : t \in S)

\* World.merge_entities(entity1, entity2) with on_non_mergeable = FIRST, its
\* default: the record [out, st] of its outcome and of the storage after it
merge_entities(st, entity1, entity2, shape) ==
    IF ~entity_exists(st, entity1) \/ ~entity_exists(st, entity2)
    THEN [out |-> Raised("ValueError"), st |-> st]
    ELSE LET all_types == get_component_types(st, entity1) \cup get_component_types(st, entity2)
             merged(t) ==
                 LET comp1 == get_component(st, entity1, t)
                     comp2 == get_component(st, entity2, t)
                 IN IF comp1 # None /\ comp2 # None
                    THEN IF Mergeable(shape, comp1) THEN merge_using_protocol(comp1, comp2)
                         ELSE merge_take_first(comp1, comp2)
                    ELSE IF comp1 # None THEN comp1 ELSE comp2
             order == InTypes(all_types)
             merged_components == [i \in 1 .. Len(order) |-> merged(order[i])]
             s == spawn(st, merged_components)
         IN [out |-> Returned(s.entity),
             st |-> destroy(destroy(s.st, entity1), entity2)]

\* World.split_entity(entity) with ratio = 0.5 and on_non_splittable = BOTH,
\* its defaults: [out, st, objs]; out returns the pair of the new entities,
\* objs tells for each type the objects the two entities were given
split_entity(st, entity, shape) ==
    IF ~entity_exists(st, entity)
    THEN [out |-> Raised("ValueError"), st |-> st, objs |-> EmptyDict]
    ELSE LET comp_types == get_component_types(st, entity)
             parts(t) ==
                 LET comp == get_component(st, entity, t)
                 IN IF Splittable(shape, comp) THEN split_using_protocol(shape, comp, 1)
                    ELSE split_to_both(comp, 1)
         IN IF \E t \in comp_types : parts(t).raised # "none"
            THEN [out |-> Raised("TypeError"), st |-> st, objs |-> EmptyDict]
            ELSE LET order == InTypes(comp_types)
                     first_components == [i \in 1 .. Len(order) |-> parts(order[i]).value[1].component]
                     second_components == [i \in 1 .. Len(order) |-> parts(order[i]).value[2].component]
                     f == spawn(st, first_components)
                     g == spawn(f.st, second_components)
                 IN [out |-> Returned(<<f.entity, g.entity>>),
                     st |-> destroy(g.st, entity),
                     objs |-> [t \in comp_types |->
                                 <<parts(t).value[1].obj, parts(t).value[2].obj>>]]

\* the second entity the allocator issues
E2 == EntityId(RESERVED_COUNT + 1, 0)

\* the components an entity of SpecMerge starts with
MergeTuples ==
    {<<>>}
    \cup {<<Component(t, v)>> : t \in Types, v \in Values}
    \cup {<<Component("Counter", v), Component("CombinableCounter", w)>> : v, w \in Values}

\* the calls made so far
Calls == IF world_call = NoWorldCall THEN 0 ELSE world_call.calls

\* the class is of one shape for all the calls
SameShape(shape) == world_call # NoWorldCall => shape = world_call.shape

InitMerge ==
    /\ \E ca, cb \in MergeTuples : storage = spawn(spawn(NewWorld, ca).st, cb).st
    /\ result = EmptyResult
    /\ applied = NotApplied
    /\ new_entities = <<>>
    /\ systems = <<>>
    /\ execution_plan = NoPlan
    /\ config = SchedulerConfig(RetryPolicy(1, "fail"), NoLimit)
    /\ tick = IdleTick
    /\ tasks = <<>>
    /\ snapshot = storage
    /\ lastCall = NoCall
    /\ semaphore = 0
    /\ recorded = <<>>
    /\ world_call = NoWorldCall
    /\ handles = [issued |-> {E1, E2}, destroyed |-> {}]
    /\ pickled = NotPickled
    /\ registry = EmptyRegistry
    /\ threads = NoThreads
    /\ normalized = NotNormalized

\* world.merge_entities(a, b)
WorldMerge ==
    /\ Calls < MaxCalls
    /\ \E a, b \in handles.issued, shape \in ClassShapes :
        /\ SameShape(shape)
        /\ LET m == merge_entities(storage, a, b, shape)
           IN /\ storage' = m.st
              /\ snapshot' = storage
              /\ world_call' = [op |-> "merge_entities", entity1 |-> a, entity2 |-> b,
                                shape |-> shape, out |-> m.out, calls |-> Calls + 1]
              /\ handles' = IF m.out.raised = "none"
                            THEN [issued |-> handles.issued \cup {m.out.value},
                                  destroyed |-> handles.destroyed \cup {a, b}]
                            ELSE handles
    /\ UNCHANGED <<result, applied, new_entities, systems, execution_plan, config, tick,
                   tasks, lastCall, semaphore, recorded, pickled,
                   registry, threads, normalized>>

\* world.split_entity(e)
WorldSplit ==
    /\ Calls < MaxCalls
    /\ \E e \in handles.issued, shape \in ClassShapes :
        /\ SameShape(shape)
        /\ LET p == split_entity(storage, e, shape)
           IN /\ storage' = p.st
              /\ snapshot' = storage
              /\ world_call' = [op |-> "split_entity", entity |-> e, shape |-> shape,
                                out |-> p.out, objs |-> p.objs, calls |-> Calls + 1]
              /\ handles' = IF p.out.raised = "none"
                            THEN [issued |-> handles.issued \cup {p.out.value[1], p.out.value[2]},
                                  destroyed |-> handles.destroyed \cup {e}]
                            ELSE handles
    /\ UNCHANGED <<result, applied, new_entities, systems, execution_plan, config, tick,
                   tasks, lastCall, semaphore, recorded, pickled,
                   registry, threads, normalized>>

NextMerge ==
    \/ WorldMerge
    \/ WorldSplit

SpecMerge == InitMerge /\ [][NextMerge]_vars

---------------------------------------------------------------------------
(* SpecRegistry: one ComponentRegistry and MaxThreads threads that call    *)
(* register on it.  A call is made of the four accesses of register to the *)
(* two dicts, in the order of its code; a thread may be switched out       *)
(* between any two of them.                                                *)

\* the component classes registered; CompA and CompB are two classes whose
\* names hash to the same 16 hex digits
Classes == {"CompA", "CompB", "CompC"}

\* int(sha256(fqn).hexdigest()[:16], 16), for the three classes
_stable_component_type_id(cls) == IF cls = "CompC" THEN 2 ELSE 1

ComponentTypeMeta(component_type_id, type_name, shared) ==
    [component_type_id |-> component_type_id, type_name |-> type_name, shared |-> shared]

\* a collision test that finds no ID taken (differs from id_is_taken)
id_is_taken_never(reg, component_type_id) == FALSE

\* `component_type_id in self._by_type_id`
id_is_taken(reg, component_type_id) == component_type_id \in DOMAIN reg.by_type_id

\* a thread that has not called register yet
IdleThread ==
    [pc |-> "idle", cls |-> "none", shared |-> FALSE, id |-> 0, out |-> Returned(None),
     before |-> EmptyRegistry, after |-> EmptyRegistry, alone |-> TRUE, calls |-> 0]

InFlight(th) == th.pc \notin {"idle", "done"}

InitRegistry ==
    /\ storage = NewWorld
    /\ result = EmptyResult
    /\ applied = NotApplied
    /\ new_entities = <<>>
    /\ systems = <<>>
    /\ execution_plan = NoPlan
    /\ config = SchedulerConfig(RetryPolicy(1, "fail"), NoLimit)
    /\ tick = IdleTick
    /\ tasks = <<>>
    /\ snapshot = storage
    /\ lastCall = NoCall
    /\ semaphore = 0
    /\ recorded = <<>>
    /\ world_call = NoWorldCall
    /\ handles = NoHandles
    /\ pickled = NotPickled
    /\ registry = EmptyRegistry
    /\ threads = [t \in 1 .. MaxThreads |-> IdleThread]
    /\ normalized = NotNormalized

RegistryUnchanged ==
    UNCHANGED <<storage, result, applied, new_entities, systems, execution_plan, config,
                tick, tasks, snapshot, lastCall, semaphore, recorded, world_call, handles,
                pickled, normalized>>

\* the thread t ends its call with the outcome
Done(t, out, reg) ==
    threads' = [threads EXCEPT ![t].pc = "done", ![t].out = out, ![t].after = reg]

\* thread t calls registry.register(cls, shared); `alone` is given up by
\* every thread whose call runs while another thread's call does
RegisterCall(t) ==
    /\ ~InFlight(threads[t])
    /\ threads[t].calls < MaxRegisterCalls
    /\ \E cls \in Classes, shared \in BOOLEAN :
        LET others == \E u \in 1 .. MaxThreads : u # t /\ InFlight(threads[u])
        IN threads' = [u \in 1 .. MaxThreads |->
                        IF u = t
                        THEN [pc |-> "by_type", cls |-> cls, shared |-> shared, id |-> 0,
                              out |-> Returned(None), before |-> registry,
                              after |-> registry, alone |-> threads[t].alone /\ ~others,
                              calls |-> threads[t].calls + 1]
                        ELSE IF InFlight(threads[u])
                        THEN [threads[u] EXCEPT !.alone = FALSE]
                        ELSE threads[u]]
    /\ UNCHANGED registry
    /\ RegistryUnchanged

\* `if cls in self._by_type: return self._by_type[cls]`, else the ID is derived
RegisterLookup(t) ==
    /\ threads[t].pc = "by_type"
    /\ IF threads[t].cls \in DOMAIN registry.by_type
       THEN Done(t, Returned(registry.by_type[threads[t].cls]), registry)
       ELSE threads' = [threads EXCEPT ![t].pc = "by_type_id",
                                       ![t].id = _stable_component_type_id(threads[t].cls)]
    /\ UNCHANGED registry
    /\ RegistryUnchanged

\* `if component_type_id in self._by_type_id: raise RuntimeError(...)`, else
\* the metadata is made
RegisterCheck(t) ==
    /\ threads[t].pc = "by_type_id"
    /\ IF id_is_taken(registry, threads[t].id)
       THEN Done(t, Raised("RuntimeError"), registry)
       ELSE threads' = [threads EXCEPT ![t].pc = "store_type"]
    /\ UNCHANGED registry
    /\ RegistryUnchanged

\* `self._by_type[cls] = meta`
RegisterStoreType(t) ==
    /\ threads[t].pc = "store_type"
    /\ registry' = [registry EXCEPT !.by_type =
                      Put(registry.by_type, threads[t].cls,
                          ComponentTypeMeta(threads[t].id, threads[t].cls, threads[t].shared))]
    /\ threads' = [threads EXCEPT ![t].pc = "store_type_id"]
    /\ RegistryUnchanged

\* `self._by_type_id[component_type_id] = cls; return meta`
RegisterStoreId(t) ==
    /\ threads[t].pc = "store_type_id"
    /\ registry' = [registry EXCEPT !.by_type_id =
                      Put(registry.by_type_id, threads[t].id, threads[t].cls)]
    /\ Done(t, Returned(ComponentTypeMeta(threads[t].id, threads[t].cls, threads[t].shared)),
            registry')
    /\ RegistryUnchanged

NextRegistry ==
    \/ \E t \in 1 .. MaxThreads : RegisterCall(t)
    \/ \E t \in 1 .. MaxThreads : RegisterLookup(t)
    \/ \E t \in 1 .. MaxThreads : RegisterCheck(t)
    \/ \E t \in 1 .. MaxThreads : RegisterStoreType(t)
    \/ \E t \in 1 .. MaxThreads : RegisterStoreId(t)

SpecRegistry == InitRegistry /\ [][NextRegistry]_vars

---------------------------------------------------------------------------
(* SpecNormalize: normalize_access is applied to an access spec, and       *)
(* applied again to what it returned.  A value of Python is a record with  *)
(* the kind of its class: None, a type, a tuple of items or a Query; the   *)
(* access patterns are the records of the system descriptors.              *)

NoneSpec == [kind |-> "None"]

TypeItem(t) == [kind |-> "type", name |-> t]

TupleOf(items) == [kind |-> "tuple", items |-> items]

\* Query(*required) with .excluded
QueryOf(required, excluded) == [kind |-> "Query", required |-> required, excluded |-> excluded]

QueryAccess(queries) == [pattern |-> "QueryAccess", queries |-> queries]

\* isinstance(spec, (AllAccess, NoAccess, TypeAccess, QueryAccess))
IsPattern(spec) == "pattern" \in DOMAIN spec

\* the sequences over S of length lo to hi
SeqsOf(S, lo, hi) == UNION {[1 .. n -> S] : n \in lo .. hi}

\* the queries of the model
Queries ==
    {QueryOf(r, x) : r \in SeqsOf(Types, 0, MaxLen), x \in SeqsOf(Types, 0, 1)}

\* the access specs normalize_access is given: the documented ones and
\* tuples that mix types and queries
AccessSpecs ==
    {NoneSpec, AllAccess, NoAccess}
    \cup Queries
    \cup {TupleOf(items) :
            items \in SeqsOf({TypeItem(t) : t \in Types} \cup Queries, 0, MaxLen)}

\* frozenset(types) of a tuple of types
TypesOf(items) == {items[i].name : i \in 1 .. Len(items)}

normalize_access(spec) ==
    IF IsPattern(spec)
    THEN IF spec.pattern \in {"AllAccess", "NoAccess"} THEN Returned(spec)
         ELSE Raised("TypeError")
    ELSE IF spec.kind = "None" THEN Returned(AllAccess)
    ELSE IF spec.kind = "Query" THEN Returned(QueryAccess(<<spec>>))
    ELSE IF spec.kind = "tuple" /\ Len(spec.items) = 0 THEN Returned(NoAccess)
    ELSE IF spec.kind = "tuple" /\ \A i \in 1 .. Len(spec.items) : spec.items[i].kind = "type"
    THEN Returned(TypeAccess(TypesOf(spec.items)))
    ELSE IF spec.kind = "tuple" /\ \A i \in 1 .. Len(spec.items) : spec.items[i].kind = "Query"
    THEN Returned(QueryAccess(spec.items))
    ELSE Raised("TypeError")

InitNormalize ==
    /\ storage = NewWorld
    /\ result = EmptyResult
    /\ applied = NotApplied
    /\ new_entities = <<>>
    /\ systems = <<>>
    /\ execution_plan = NoPlan
    /\ config = SchedulerConfig(RetryPolicy(1, "fail"), NoLimit)
    /\ tick = IdleTick
    /\ tasks = <<>>
    /\ snapshot = storage
    /\ lastCall = NoCall
    /\ semaphore = 0
    /\ recorded = <<>>
    /\ world_call = NoWorldCall
    /\ handles = NoHandles
    /\ pickled = NotPickled
    /\ registry = EmptyRegistry
    /\ threads = NoThreads
    /\ \E x \in AccessSpecs : normalized = [at |-> "input", x |-> x]

\* once = normalize_access(x)
NormalizeOnce ==
    /\ normalized.at = "input"
    /\ normalized' = [at |-> "once", x |-> normalized.x, once |-> normalize_access(normalized.x)]
    /\ UNCHANGED <<storage, result, applied, new_entities, systems, execution_plan, config,
                   tick, tasks, snapshot, lastCall, semaphore, recorded, world_call, handles,
                   pickled, registry, threads>>

\* twice = normalize_access(once)
NormalizeTwice ==
    /\ normalized.at = "once"
    /\ normalized.once.raised = "none"
    /\ normalized' = [at |-> "twice", x |-> normalized.x, once |-> normalized.once,
                      twice |-> normalize_access(normalized.once.value)]
    /\ UNCHANGED <<storage, result, applied, new_entities, systems, execution_plan, config,
                   tick, tasks, snapshot, lastCall, semaphore, recorded, world_call, handles,
                   pickled, registry, threads>>

NextNormalize ==
    \/ NormalizeOnce
    \/ NormalizeTwice

SpecNormalize == InitNormalize /\ [][NextNormalize]_vars

---------------------------------------------------------------------------
(* SpecAccess: a ScopedAccess made of a World, a descriptor and a buffer,  *)
(* as World.execute_system_async makes it, is read through.  The buffer is *)
(* recorded op by op as in SpecCommit; then one get or one query is made.  *)

\* the Worlds read through: those of SpecCommit, and one whose WORLD entity
\* holds a singleton component
AccessWorlds == InitialWorlds \cup {set_singleton(WorldOfOne, Component("Counter", 0))}

\* the entities get is called with
ReadEntities == OpEntities \cup {WORLD}

\* the type lists query is called with
QueryTypes == {<<"Counter">>, <<"CombinableCounter">>, <<"Counter", "CombinableCounter">>}

InitAccess ==
    /\ storage \in AccessWorlds
    /\ result = EmptyResult
    /\ applied = NotApplied
    /\ new_entities = <<>>
    /\ systems \in {<<NormalSystem>>, <<DevSystem>>}
    /\ execution_plan = NoPlan
    /\ config = SchedulerConfig(RetryPolicy(1, "fail"), NoLimit)
    /\ tick = IdleTick
    /\ tasks = <<>>
    /\ snapshot = storage
    /\ lastCall = NoCall
    /\ semaphore = 0
    /\ recorded = <<>>
    /\ world_call = NoWorldCall
    /\ handles = NoHandles
    /\ pickled = NotPickled
    /\ registry = EmptyRegistry
    /\ threads = NoThreads
    /\ normalized = NotNormalized

\* ScopedAccess(world, systems[1], result).get(e, t)
AccessGet ==
    /\ lastCall = NoCall
    /\ \E e \in ReadEntities, t \in Types :
        lastCall' = Outcome([sys |-> 1, op |-> "get", entity |-> e, arg |-> t,
                             out |-> get_async(systems[1], result, storage, e, t)], FALSE)
    /\ UNCHANGED <<storage, result, applied, new_entities, systems, execution_plan, config,
                   tick, tasks, snapshot, semaphore, recorded, world_call, handles, pickled,
                   registry, threads, normalized>>

\* ScopedAccess(world, systems[1], result).query(*ts), read to its end
AccessQuery ==
    /\ lastCall = NoCall
    /\ \E ts \in QueryTypes :
        lastCall' = Outcome([sys |-> 1, op |-> "query", entity |-> WORLD, arg |-> ts,
                             out |-> query_async(systems[1], result, storage, ts)], FALSE)
    /\ UNCHANGED <<storage, result, applied, new_entities, systems, execution_plan, config,
                   tick, tasks, snapshot, semaphore, recorded, world_call, handles, pickled,
                   registry, threads, normalized>>

\* ScopedAccess(world, systems[1], result).has(e, t)
AccessHas ==
    /\ lastCall = NoCall
    /\ \E e \in ReadEntities, t \in Types :
        lastCall' = Outcome([sys |-> 1, op |-> "has", entity |-> e, arg |-> t,
                             out |-> has(systems[1], result, storage, e, t)], FALSE)
    /\ UNCHANGED <<storage, result, applied, new_entities, systems, execution_plan, config,
                   tick, tasks, snapshot, semaphore, recorded, world_call, handles, pickled,
                   registry, threads, normalized>>

NextAccess ==
    \/ RecordUpdate
    \/ RecordInsert
    \/ RecordRemove
    \/ RecordSpawn
    \/ RecordDestroy
    \/ AccessGet
    \/ AccessHas
    \/ AccessQuery

SpecAccess == InitAccess /\ [][NextAccess]_vars

---------------------------------------------------------------------------
(* Properties of the ticks (Spec) *)

Reads == {"get", "has", "query"}

\* what the read lastCall records returns on the storage st for its system's buffer
ReadOn(st) ==
    LET d == systems[lastCall.sys]
        b == tasks[lastCall.sys].buffer
    IN CASE lastCall.op = "get" -> get_async(d, b, st, lastCall.entity, lastCall.arg)
         [] lastCall.op = "has" -> has(d, b, st, lastCall.entity, lastCall.arg)
         [] lastCall.op = "query" -> query_async(d, b, st, <<lastCall.arg>>)

\* C1: snapshot isolation within a group.  Whatever the interleaving of the
\* systems of a group, each get, has and query of a system returns what it
\* returns on the storage as committed at group entry, overlaid with that
\* system's own buffer only; no write of a peer shows in it.
C1_SnapshotIsolation ==
    lastCall.op \in Reads => lastCall.out = ReadOn(snapshot)

\* a system read the stored counter of E1 after a peer of its group had
\* issued an update of that counter to another value
C1_Witness ==
    /\ lastCall.op = "get"
    /\ lastCall.out.raised = "none"
    /\ \E a \in Members(execution_plan, tick) \ {lastCall.sys} :
        /\ tasks[a].issued # None
        /\ get_type(tasks[a].issued) = lastCall.arg
        /\ tasks[a].issued # lastCall.out.value

\* C2: during a tick storage is mutated only by the commit of a group.
\* Between the dispatch of a group and the end of its gather, no step of a
\* system (update, update_singleton, insert, remove, spawn, destroy, get, has,
\* query, or its return) changes storage.
C2_StorageMutatedOnlyByCommit ==
    [][(tick.phase = "running" /\ tick' = tick) => storage' = storage]_vars

\* a write that passed the access check was made while the group was running,
\* on a component storage holds with another value, and storage is as dispatched
C2_Witness ==
    /\ tick.phase = "running"
    /\ lastCall.op \in {"update", "insert"}
    /\ lastCall.out.raised # "AccessViolationError"
    /\ get_component(storage, lastCall.entity, get_type(lastCall.arg)) \notin {None, lastCall.arg}
    /\ storage = snapshot

\* C3: read-your-own-writes.  After a system's update(E1, c) on a component
\* E1 holds passed the access check, every later get(E1, type of c) of that
\* execution returns c.
C3_ReadYourOwnWrites ==
    (/\ lastCall.op = "get"
     /\ tasks[lastCall.sys].status = "running"
     /\ has_component(snapshot, E1, lastCall.arg)
     /\ tasks[lastCall.sys].issued # None
     /\ get_type(tasks[lastCall.sys].issued) = lastCall.arg)
        => lastCall.out = Returned(tasks[lastCall.sys].issued)

\* C4: no buffered write is lost.  With no retry configured and a single
\* system registered, the tick in which the system issued update(E1, c) on a
\* component E1 holds ends without an exception and with c in storage.
C4_SingleUpdateIsCommitted ==
    (/\ tick.phase = "idle"
     /\ Len(systems) = 1
     /\ config.retry_policy.max_attempts = 1
     /\ tasks[1].issued # None
     /\ has_component(snapshot, E1, get_type(tasks[1].issued)))
        => /\ tick.raised = "none"
           /\ get_component(storage, E1, get_type(tasks[1].issued)) = tasks[1].issued

\* C5: failure atomicity of a group.  When a tick ended with the exception
\* of a system, the tick is over, storage is as it was when the failing
\* group was dispatched (the last successful commit), and no system of a
\* later group of the plan was executed in the tick.
C5_FailureAtomicity ==
    tick.raised # "none" =>
        /\ tick.phase = "idle"
        /\ storage = snapshot
        /\ \A g \in tick.group + 1 .. Len(execution_plan.groups) :
             \A j \in 1 .. Len(execution_plan.groups[g]) :
                tasks[execution_plan.groups[g][j]].status = "idle"

\* a tick ended with an exception in a group that has a group after it
C5_Witness ==
    /\ tick.phase = "idle"
    /\ tick.raised # "none"
    /\ tick.group < Len(execution_plan.groups)
    /\ tasks[execution_plan.groups[tick.group][1]].status = "failed"

\* C6: groups commit sequentially.  With no retry configured, once the group
\* of a dev system that issued update(E1, c) on a component E1 holds is over,
\* the group of the normal system registered after it is dispatched on a
\* storage that holds c.
C6_LaterGroupReadsEarlierWrites ==
    (/\ systems = <<DevSystem, NormalSystem>>
     /\ config.retry_policy.max_attempts = 1
     /\ tasks[1].issued # None
     /\ has_component(storage, E1, get_type(tasks[1].issued))
     /\ ~(tick.phase = "running" /\ tick.group = 1))
        => /\ tick.group = 2
           /\ get_component(snapshot, E1, get_type(tasks[1].issued)) = tasks[1].issued

---------------------------------------------------------------------------
(* Properties of the commit (SpecCommit) *)

\* the op is about the entity
OnEntity(op, e) == op.kind # "spawn" /\ op.entity = e

\* C7: conflicting updates of a group are resolved by registration order.
\* When the results of two systems of a group both update (e, Counter) and
\* hold nothing else about e, the group commits the update of the second.
C7_LaterRegisteredWins ==
    applied.how = "group" =>
        LET rs == SplitResults(result, applied.split)
        IN \A e \in OpEntities :
            (/\ \A k \in 1 .. Len(result.ops) :
                    OnEntity(result.ops[k], e) => result.ops[k].kind = "update"
             /\ e \in DOMAIN updates(rs[1]) /\ "Counter" \in DOMAIN updates(rs[1])[e]
             /\ e \in DOMAIN updates(rs[2]) /\ "Counter" \in DOMAIN updates(rs[2])[e])
                => get_component(storage, e, "Counter") = updates(rs[2])[e]["Counter"]

\* the components of the updates of (e, t) in the log, in op order
UpdatesOf(r, e, t) ==
    LET us == SelectSeq(r.ops, LAMBDA o : /\ o.kind = "update" /\ o.entity = e
                                          /\ get_type(o.component) = t)
    IN [j \in 1 .. Len(us) |-> us[j].component]

RECURSIVE Folded(_)
\* combine(... combine(combine(c1, c2), c3) ...)
Folded(cs) ==
    IF Len(cs) = 1 THEN cs[1] ELSE combine(Folded(Front(cs)), Last(cs))

\* C8: at commit the writes to one (entity, type) of a type with the combine
\* protocol are folded in op order.  A result whose ops about e are updates,
\* several of them of CombinableCounter, commits their fold.
C8_CombinableWritesAreFolded ==
    applied.how = "apply_result" =>
        \A e \in OpEntities, t \in {x \in Types : Combinable(x)} :
            (/\ \A k \in 1 .. Len(result.ops) :
                    OnEntity(result.ops[k], e) => result.ops[k].kind = "update"
             /\ Len(UpdatesOf(result, e, t)) >= 2)
                => get_component(storage, e, t) = Folded(UpdatesOf(result, e, t))

\* C9: commit replays a remove followed by a set in recorded order.  A result
\* with remove(e, T) before an update or insert of c of type T on e, the last
\* op about e, and no destroy of e, commits T on e with the value c.
C9_RemoveThenSetCommitsPresent ==
    applied.how = "apply_result" =>
        \A e \in OpEntities : \A i, j \in 1 .. Len(result.ops) :
            (/\ i < j
             /\ result.ops[i].kind = "remove" /\ result.ops[i].entity = e
             /\ result.ops[j].kind \in {"update", "insert"} /\ result.ops[j].entity = e
             /\ get_type(result.ops[j].component) = result.ops[i].component_type
             /\ \A k \in 1 .. Len(result.ops) :
                    /\ OnEntity(result.ops[k], e) => result.ops[k].kind # "destroy"
                    /\ (k > j) => ~OnEntity(result.ops[k], e))
                => get_component(storage, e, result.ops[i].component_type)
                       = result.ops[j].component

\* C10: a result in which destroy(e) is recorded before any other op on e
\* commits with e absent: entity_exists(e) is false and no component of e
\* can be read from storage.
C10_DestroyFirstCommitsAbsent ==
    applied.how = "apply_result" =>
        \A e \in OpEntities :
            (\E i \in 1 .. Len(result.ops) :
                /\ result.ops[i].kind = "destroy" /\ result.ops[i].entity = e
                /\ \A j \in 1 .. i - 1 : ~OnEntity(result.ops[j], e))
                => /\ ~entity_exists(storage, e)
                   /\ \A t \in Types : get_component(storage, e, t) = None

\* the result destroy(E1), update(E1, c) was committed to a world that held E1
C10_Witness ==
    /\ applied.how = "apply_result"
    /\ Len(result.ops) = 2
    /\ result.ops[1].kind = "destroy" /\ result.ops[1].entity = E1
    /\ result.ops[2].kind = "update" /\ result.ops[2].entity = E1
    /\ entity_exists(snapshot, E1)
    /\ E1 \notin DOMAIN storage.components

\* every op of r on a provisional id comes after the spawn op that id stands for
SpawnedBefore(r) ==
    \A j \in 1 .. Len(r.ops) :
        (r.ops[j].kind # "spawn" /\ r.ops[j].entity.index < 0) =>
            \E k \in 1 .. Len(spawns(r)) :
                /\ r.ops[j].entity = Provisional(k)
                /\ IndicesOf(r.ops, "spawn")[k] < r.ops[j].op_seq

\* C11: apply_result resolves provisional spawn ids.  For a result whose ops
\* on provisional ids follow the spawns they stand for: the k-th spawn op
\* becomes the k-th new entity, an update or insert on the provisional id of
\* that spawn (not followed by another op on that id) is found on that new
\* entity, and after the commit storage holds no entity with a negative index.
C11_ProvisionalIdsResolved ==
    (applied.how = "apply_result" /\ SpawnedBefore(result)) =>
        /\ Len(new_entities) = Len(spawns(result))
        /\ \A e \in DOMAIN storage.components : e.index >= 0
        /\ \A k \in 1 .. Len(spawns(result)) : \A j \in 1 .. Len(result.ops) :
            (/\ result.ops[j].kind \in {"update", "insert"}
             /\ result.ops[j].entity = Provisional(k)
             /\ \A i \in j + 1 .. Len(result.ops) :
                    ~OnEntity(result.ops[i], Provisional(k)))
                => get_component(storage, new_entities[k],
                                 get_type(result.ops[j].component)) = result.ops[j].component

---------------------------------------------------------------------------
(* Properties of the ScopedAccess calls and of the retries (Spec) *)

\* C12: ScopedAccess.spawn returns a provisional id.  A spawn call that
\* returns gives an EntityId with a negative index, which is not the id of a
\* real or reserved entity such as WORLD.
C12_SpawnReturnsProvisionalId ==
    (lastCall.op = "spawn" /\ lastCall.out.raised = "none") =>
        /\ lastCall.out.value.index < 0
        /\ lastCall.out.value # WORLD

\* the last call is a read by a non-dev system of a type that neither its
\* read pattern nor its write pattern allows
UndeclaredRead ==
    /\ lastCall.op \in Reads
    /\ ~is_dev_mode(systems[lastCall.sys])
    /\ ~_pattern_allows(systems[lastCall.sys].reads, lastCall.arg)
    /\ ~_pattern_allows(systems[lastCall.sys].writes, lastCall.arg)

Writes == {"update", "update_singleton", "insert", "remove", "spawn", "destroy"}

\* C14: a READONLY system may not write.  Every write method of ScopedAccess
\* (update, update_singleton, insert, remove, spawn, destroy) called by a
\* READONLY system raises AccessViolation, and storage is as it was when the
\* group of the system was dispatched.
C14_ReadonlyWritesRaise ==
    (lastCall.op \in Writes /\ systems[lastCall.sys].mode = "READONLY") =>
        /\ lastCall.out = Raised("AccessViolationError")
        /\ storage = snapshot

\* the result holds an update, insert, remove or spawned component of a type
\* the write pattern of the descriptor does not allow
WritesUndeclared(descriptor, r) ==
    \E j \in 1 .. Len(r.ops) :
        CASE r.ops[j].kind \in {"update", "insert"} ->
                ~can_write_type(descriptor, get_type(r.ops[j].component))
          [] r.ops[j].kind = "remove" ->
                ~can_write_type(descriptor, r.ops[j].component_type)
          [] r.ops[j].kind = "spawn" ->
                \E n \in 1 .. Len(r.ops[j].spawn_components) :
                    ~can_write_type(descriptor, get_type(r.ops[j].spawn_components[n]))
          [] OTHER -> FALSE

\* C15: execute_system validates the result.  When the body of a system
\* returns a result with a write of a type its write pattern does not allow,
\* execute_system raises AccessViolation and storage stays as dispatched.
C15_ReturnedWritesAreValidated ==
    (/\ lastCall.op = "return"
     /\ WritesUndeclared(systems[lastCall.sys], normalize_result(lastCall.arg))) =>
        /\ lastCall.out = Raised("AccessViolationError")
        /\ storage = snapshot

\* C16: in PURE mode the write methods of ScopedAccess are disabled.  Every
\* call of update, update_singleton, insert, remove, spawn or destroy by a
\* PURE system raises, for the types of its declared writes too, and leaves
\* its buffer and storage as they were.
C16_PureWritesAreDisabled ==
    (lastCall.op \in Writes /\ systems[lastCall.sys].mode = "PURE") =>
        /\ lastCall.out.raised # "none"
        /\ storage = snapshot

\* the positions of the systems of the group the tick is at or ended at
GroupOfTick ==
    {execution_plan.groups[tick.group][j] : j \in 1 .. Len(execution_plan.groups[tick.group])}

\* C17: with retry policy max_attempts = N > 1 a system is invoked at most N
\* times, and the attempt in which its body returns is its last: the task is
\* done with the result of that attempt, and a tick of that system alone
\* ends without an exception and with the returned update in storage.
C17_RetriesUntilSuccess ==
    config.retry_policy.max_attempts > 1 =>
        /\ \A i \in 1 .. Len(tasks) : tasks[i].attempt <= config.retry_policy.max_attempts
        /\ lastCall.op = "return" =>
             /\ tasks[lastCall.sys].status = "done"
             /\ tasks[lastCall.sys].buffer = merge(EmptyResult, normalize_result(lastCall.arg).ops)
             /\ (tick.phase = "idle" /\ GroupOfTick = {lastCall.sys}) =>
                  /\ tick.raised = "none"
                  /\ \A u \in DOMAIN updates(normalize_result(lastCall.arg)) :
                       \A t \in DOMAIN updates(normalize_result(lastCall.arg))[u] :
                          get_component(storage, u, t)
                              = updates(normalize_result(lastCall.arg))[u][t]

\* C18: with on_exhausted = skip a system that failed all its attempts
\* contributes an empty result and the results of its peers are committed.
\* When the tick of a group of two ended after one system, skipped at its
\* last attempt, and the other, whose body returned an update of a declared
\* type on a component E1 holds, the tick ended without an exception and the
\* update is in storage.
C18_SkipKeepsOtherResults ==
    (/\ config.retry_policy.max_attempts > 1
     /\ config.retry_policy.on_exhausted = "skip"
     /\ tick.phase = "idle"
     /\ lastCall.op = "return"
     /\ lastCall.arg # None
     /\ ~WritesUndeclared(systems[lastCall.sys], lastCall.arg)
     /\ \E peer \in GroupOfTick \ {lastCall.sys} :
            /\ tasks[peer].status = "done"
            /\ tasks[peer].attempt = config.retry_policy.max_attempts
            /\ is_empty(tasks[peer].buffer)
     /\ \A u \in DOMAIN updates(lastCall.arg) : \A t \in DOMAIN updates(lastCall.arg)[u] :
            has_component(snapshot, u, t))
        => /\ tick.raised = "none"
           /\ \A u \in DOMAIN updates(lastCall.arg) : \A t \in DOMAIN updates(lastCall.arg)[u] :
                get_component(storage, u, t) = updates(lastCall.arg)[u][t]

\* C19: an access violation raised by a system is not retried and not
\* absorbed.  Under every retry policy, when an AccessViolation leaves the
\* body of a system its task fails with it, there is no further attempt, and
\* the tick cannot end without an exception.
C19_AccessViolationsAreNotRetried ==
    (/\ lastCall.op \in Reads \cup Writes
     /\ lastCall.uncaught
     /\ lastCall.out.raised = "AccessViolationError")
        => /\ tasks[lastCall.sys].status = "failed"
           /\ tasks[lastCall.sys].error = "AccessViolationError"
           /\ tick.phase = "idle" => tick.raised # "none"

\* the systems of the group that are executing: between the start and the
\* end of _execute_with_retry, retries included
Executing == {i \in Members(execution_plan, tick) : tasks[i].status = "running"}

\* C20: with max_concurrent = k at most k systems of the group are executing
\* at every instant, retries and suspensions included; with k = 1 the
\* executions of a group never overlap.
C20_AtMostKExecuting ==
    config.max_concurrent.limited =>
        Cardinality(Executing) <= config.max_concurrent.value

\* under the cap a system is at a retry while a peer of its group, dispatched
\* with it, waits for the semaphore
C20_Witness ==
    /\ config.max_concurrent.limited
    /\ Cardinality(Executing) = config.max_concurrent.value
    /\ \E i \in Executing : tasks[i].attempt > 1
    /\ \E j \in Members(execution_plan, tick) : tasks[j].status = "waiting"

---------------------------------------------------------------------------
(* Properties of the execution plan and of the ticks (Spec) *)

\* C21: the plan built of the registered systems is one group of one system
\* per runs_alone system, in registration order, followed by one group of
\* all the other systems in registration order, which is left out when
\* there are none; every registered system is in exactly one group, once.
C21_PlanIsolatesThenGroupsTheRest ==
    execution_plan.built =>
        LET groups == execution_plan.groups
            n == Len(systems)
            alone == {i \in 1 .. n : systems[i].runs_alone}
            rest == (1 .. n) \ alone
            k == Cardinality(alone)
            places(i) == {<<j, m>> \in (1 .. Len(groups)) \X (1 .. n) :
                            m <= Len(groups[j]) /\ groups[j][m] = i}
        IN /\ Len(groups) = k + (IF rest = {} THEN 0 ELSE 1)
           /\ \A j \in 1 .. k : Len(groups[j]) = 1 /\ groups[j][1] \in alone
           /\ \A j \in 1 .. k : \A l \in 1 .. k : j < l => groups[j][1] < groups[l][1]
           /\ rest # {} =>
                 /\ {groups[k + 1][m] : m \in 1 .. Len(groups[k + 1])} = rest
                 /\ \A m \in 1 .. Len(groups[k + 1]) : \A l \in 1 .. Len(groups[k + 1]) :
                        m < l => groups[k + 1][m] < groups[k + 1][l]
           /\ \A i \in 1 .. n : Cardinality(places(i)) = 1

\* a plan was built of a runs_alone system registered after another system:
\* its group comes first
C21_Witness ==
    /\ execution_plan.built
    /\ Len(systems) = 2
    /\ ~systems[1].runs_alone /\ systems[2].runs_alone
    /\ execution_plan.groups = <<<<2>>, <<1>>>>

\* C22: a tick is one execution of the plan over the systems registered when
\* it starts, also those registered since the tick before: with retry off,
\* when the tick is over and no call made by a system's body raised, every
\* registered system was invoked exactly once and ended.
C22_TickRunsEverySystemOnce ==
    (/\ tick.phase = "idle" /\ tick.group > 0
     /\ execution_plan.built
     /\ config.retry_policy.max_attempts <= 1
     /\ \A i \in 1 .. Len(systems) : tasks[i].error \in {"none", "AttributeError"})
    => \A i \in 1 .. Len(systems) : tasks[i].status = "done" /\ tasks[i].attempt = 1

---------------------------------------------------------------------------
(* Properties of the allocator and of the storage (SpecStorage, SpecSnapshot) *)

\* C23: after deallocate(e) of a handle e that was alive, is_alive(e) is
\* false, and the allocate that follows it at once returns the handle of
\* e's index with e's generation plus one, which is alive.
C23_FreedSlotIsReusedInNextGeneration ==
    /\ (world_call.op = "destroy" /\ world_call.live /\ world_call.existed)
        => ~is_alive(storage, world_call.entity)
    /\ (world_call.op = "spawn" /\ world_call.after_free # None)
        => /\ world_call.out = EntityId(world_call.after_free.index,
                                        world_call.after_free.generation + 1)
           /\ is_alive(storage, world_call.out)
           /\ ~is_alive(storage, world_call.after_free)

\* E1 was alive and destroyed, and the spawn right after it returned its index
C23_Witness ==
    /\ world_call.op = "spawn"
    /\ world_call.after_free = E1
    /\ world_call.out = EntityId(RESERVED_COUNT, 1)

\* the handles create_entity returned whose index is not a reserved one
Issued == {e \in handles.issued : e.index >= RESERVED_COUNT}

\* C24: a handle create_entity returned is reported alive until it is
\* destroyed, and a handle that was destroyed is never reported alive again
\* by is_alive or entity_exists, whatever spawn, destroy and set calls follow
\* (stated for the handles of the indices the allocator issues by itself).
C24_HandleLivenessIsMonotone ==
    /\ \A e \in Issued \ handles.destroyed : entity_exists(storage, e)
    /\ \A e \in Issued \cap handles.destroyed :
          ~is_alive(storage, e) /\ ~entity_exists(storage, e)

\* C25: every EntityId create_entity returns has an index of at least
\* _RESERVED_COUNT, whatever spawn, destroy (of any entity ID) and set calls
\* were made before.
C25_ReservedIndicesAreNeverIssued ==
    \A e \in handles.issued : e.index >= RESERVED_COUNT

\* C26: after World() the reserved entities WORLD and CLOCK exist:
\* entity_exists is true for both.
C26_ReservedEntitiesExistAfterConstruction ==
    world_call = NoWorldCall =>
        entity_exists(storage, WORLD) /\ entity_exists(storage, CLOCK)

\* what the protocol operations of a storage answer about the entities `probes`
Observed(st, probes) ==
       [entity_exists |-> {e \in probes : entity_exists(st, e)},
        all_entities |-> all_entities(st),
        get |-> {<<e, t, get_component(st, e, t)>> : e \in probes, t \in Types},
        has |-> {<<e, t>> \in probes \X Types : has_component(st, e, t)},
        types_of |-> {<<e, get_component_types(st, e)>> : e \in probes},
        query |-> [t \in Types |-> query(st, <<t>>)]]

\* C27: after restore(snapshot(S)), into the same storage after further
\* changes or into a new one, entity_exists, all_entities, get, has, types_of
\* and query answer as they did on S.
C27_RestoreOfSnapshotIsObservablyEqual ==
    world_call.op = "restore" =>
        LET probes == KnownHandles \cup DOMAIN storage.components
                              \cup DOMAIN pickled.of.components
        IN Observed(storage, probes) = Observed(pickled.of, probes)

---------------------------------------------------------------------------
(* Properties of the op log and of the reads through a buffer *)

\* C28: after any sequence of record_* and merge calls the op list of a
\* SystemResult is what the calls were given, in call order, a merge giving
\* the ops of the other result in their order after the ops already there,
\* and the op_seq values are 0, 1, ..., n-1 in list order.
C28_OpLogIsAppendOnlyAndNumbered ==
    /\ Len(result.ops) = Len(recorded)
    /\ \A j \in 1 .. Len(result.ops) :
          /\ Payload(result.ops[j]) = recorded[j]
          /\ result.ops[j].op_seq = j - 1
    /\ result.next_op_seq = Len(result.ops)

\* a result of two ops was merged into a result that held a spawn
C28_Witness ==
    /\ Len(result.ops) = 3
    /\ result.ops[1].kind = "spawn"
    /\ result.ops[2].kind = "update" /\ result.ops[2].op_seq = 1
    /\ result.ops[3].kind = "destroy" /\ result.ops[3].op_seq = 2

\* the system of SpecAccess may read the types
Readable(types) == _check_readable(systems[1], types) = "none"

\* C29: after destroy(e) is in the buffer of a system, get(e, T) raises the
\* not-found error for every type T, also when storage still holds a T of e;
\* get also raises it when neither the buffer nor storage has (e, T).
C29_GetOfDestroyedEntityRaises ==
    (lastCall.op = "get" /\ Readable(<<lastCall.arg>>)) =>
        LET e == lastCall.entity
            t == lastCall.arg
            buffered == \E j \in 1 .. Len(result.ops) :
                          /\ result.ops[j].kind \in {"update", "insert"}
                          /\ result.ops[j].entity = e
                          /\ get_type(result.ops[j].component) = t
        IN /\ InSeq(e, destroys(result)) => lastCall.out.raised = "KeyError"
           /\ (~buffered /\ ~has_component(storage, e, t)) => lastCall.out.raised = "KeyError"

\* the buffer holds an op of one of the kinds about the entity and the type
Buffered(kinds, e, t) ==
    \E j \in 1 .. Len(result.ops) :
        /\ result.ops[j].kind \in kinds
        /\ result.ops[j].entity = e
        /\ IF result.ops[j].kind = "remove" THEN result.ops[j].component_type = t
           ELSE get_type(result.ops[j].component) = t

\* the entities of the storage and of the buffered updates and inserts
QueryCandidates ==
    DOMAIN storage.components
    \cup {result.ops[j].entity :
            j \in {k \in 1 .. Len(result.ops) : result.ops[k].kind \in {"update", "insert"}}}

\* C30: query(T1..Tn) yields each entity at most once, and yields exactly
\* the entities that hold every required type in the committed state with
\* the buffer laid over it: not the entities destroyed in the buffer nor
\* those with a buffered remove of a required type, and also the entities
\* that hold a required type only through a buffered insert or update.
C30_QueryYieldsCommittedStateUnderBuffer ==
    (lastCall.op = "query" /\ Readable(lastCall.arg)) =>
        LET ts == lastCall.arg
            yielded == lastCall.out.value
            holds(e) ==
                /\ ~InSeq(e, destroys(result))
                /\ \A i \in 1 .. Len(ts) :
                      /\ ~Buffered({"remove"}, e, ts[i])
                      /\ \/ Buffered({"update", "insert"}, e, ts[i])
                         \/ has_component(storage, e, ts[i])
        IN /\ {p[1] : p \in yielded} = {e \in QueryCandidates : holds(e)}
           /\ Cardinality(yielded) = Cardinality({p[1] : p \in yielded})

\* C31: has is buffer-aware and agrees with get: has(e, T) is true exactly
\* when get(e, T) on the same buffer and storage returns a component; it
\* is true after a buffered update or insert of T on e, and false after a
\* buffered remove of T on e or a buffered destroy of e.
C31_HasAgreesWithGet ==
    (lastCall.op = "has" /\ Readable(<<lastCall.arg>>)) =>
        LET e == lastCall.entity
            t == lastCall.arg
            answer == lastCall.out.value
        IN /\ lastCall.out.raised = "none"
           /\ answer = (get_async(systems[1], result, storage, e, t).raised = "none")
           /\ (Buffered({"update", "insert"}, e, t) /\ ~Buffered({"remove"}, e, t)
                  /\ ~InSeq(e, destroys(result))) => answer = TRUE
           /\ (Buffered({"remove"}, e, t) /\ ~Buffered({"update", "insert"}, e, t))
                  => answer = FALSE
           /\ InSeq(e, destroys(result)) => answer = FALSE

---------------------------------------------------------------------------
(* Properties of World.merge_entities and World.split_entity (SpecMerge) *)

\* C32: merge_entities(a, b) on two existing entities creates exactly one
\* new entity; its component types are those of a united with those of b;
\* a type present on both takes combine(a.t, b.t) when it is Combinable
\* and b's value otherwise; afterwards a and b no longer exist.
C32_MergeCombinesOrTakesTheSecond ==
    (/\ world_call.op = "merge_entities"
     /\ world_call.entity1 # world_call.entity2
     /\ entity_exists(snapshot, world_call.entity1)
     /\ entity_exists(snapshot, world_call.entity2)) =>
        LET a == world_call.entity1
            b == world_call.entity2
            m == world_call.out.value
            expected(t) ==
                IF has_component(snapshot, a, t) /\ has_component(snapshot, b, t)
                THEN IF Combinable(t)
                     THEN combine(get_component(snapshot, a, t), get_component(snapshot, b, t))
                     ELSE get_component(snapshot, b, t)
                ELSE IF has_component(snapshot, a, t) THEN get_component(snapshot, a, t)
                ELSE get_component(snapshot, b, t)
        IN /\ world_call.out.raised = "none"
           /\ all_entities(storage) \ all_entities(snapshot) = {m}
           /\ get_component_types(storage, m)
                = get_component_types(snapshot, a) \cup get_component_types(snapshot, b)
           /\ \A t \in get_component_types(storage, m) :
                get_component(storage, m, t) = expected(t)
           /\ ~entity_exists(storage, a)
           /\ ~entity_exists(storage, b)

\* C33: split_entity(e) on an existing entity creates two distinct new
\* entities, each with every component type of e: the two parts of the
\* split for a Splittable type, otherwise two copies that are neither the
\* same object nor the original; afterwards e no longer exists.
C33_SplitMakesTwoEntitiesOfParts ==
    (world_call.op = "split_entity" /\ entity_exists(snapshot, world_call.entity)) =>
        LET e == world_call.entity
            types == get_component_types(snapshot, e)
        IN /\ world_call.out.raised = "none"
           /\ LET l == world_call.out.value[1]
                  r == world_call.out.value[2]
              IN /\ l # r
                 /\ all_entities(storage) \ all_entities(snapshot) = {l, r}
                 /\ get_component_types(storage, l) = types
                 /\ get_component_types(storage, r) = types
                 /\ \A t \in types :
                      LET c == get_component(snapshot, e, t)
                      IN IF t = "CombinableCounter"
                         THEN /\ get_component(storage, l, t) = Component(t, c.value \div 2)
                              /\ get_component(storage, r, t)
                                   = Component(t, c.value - c.value \div 2)
                         ELSE /\ get_component(storage, l, t) = c
                              /\ get_component(storage, r, t) = c
                              /\ world_call.objs[t][1] # world_call.objs[t][2]
                              /\ "original" \notin {world_call.objs[t][1], world_call.objs[t][2]}
                 /\ ~entity_exists(storage, e)

---------------------------------------------------------------------------
(* Properties of the component registry (SpecRegistry) *)

\* every registered type is found under its ID and every ID under its type
OneToOne(reg) ==
    /\ \A c \in DOMAIN reg.by_type :
         /\ reg.by_type[c].component_type_id \in DOMAIN reg.by_type_id
         /\ reg.by_type_id[reg.by_type[c].component_type_id] = c
    /\ \A i \in DOMAIN reg.by_type_id :
         /\ reg.by_type_id[i] \in DOMAIN reg.by_type
         /\ reg.by_type[reg.by_type_id[i]].component_type_id = i

\* no call of register ran while another did
Serial == \A t \in 1 .. MaxThreads : threads[t].alone

\* C34: register keeps types and IDs one-to-one.  While the calls are made
\* one after the other: registering a registered type returns the metadata
\* it has and changes neither map; registering another type whose ID is
\* that of a registered type raises the collision error and changes neither
\* map; and the two maps stay the inverse of each other.
C34_RegisterIsIdempotentAndRejectsCollisions ==
    Serial =>
        /\ ~(\E t \in 1 .. MaxThreads : InFlight(threads[t])) => OneToOne(registry)
        /\ \A t \in 1 .. MaxThreads :
             threads[t].pc = "done" =>
                LET th == threads[t]
                    derived == _stable_component_type_id(th.cls)
                IN IF th.cls \in DOMAIN th.before.by_type
                   THEN th.out = Returned(th.before.by_type[th.cls]) /\ th.after = th.before
                   ELSE IF derived \in DOMAIN th.before.by_type_id
                   THEN th.out.raised = "RuntimeError" /\ th.after = th.before
                   ELSE /\ th.out = Returned(ComponentTypeMeta(derived, th.cls, th.shared))
                        /\ th.after.by_type = Put(th.before.by_type, th.cls, th.out.value)
                        /\ th.after.by_type_id = Put(th.before.by_type_id, derived, th.cls)

\* a registered type was registered again, with the other value of shared,
\* and a type whose ID collides was rejected, the calls one after the other
C34_Witness ==
    /\ Serial
    /\ \E t, u \in 1 .. MaxThreads :
        /\ threads[t].pc = "done"
        /\ threads[t].cls \in DOMAIN threads[t].before.by_type
        /\ threads[t].before.by_type[threads[t].cls].shared # threads[t].shared
        /\ threads[u].pc = "done"
        /\ threads[u].out.raised = "RuntimeError"

\* C35: registration is concurrent-safe: however the calls of register
\* interleave, no ID is the ID of two registered types and no entry of a
\* map is overwritten, and of two calls that register different types
\* with the same ID one returns and the other raises the collision error.
C35_ConcurrentRegistrationIsSafe ==
    /\ \A c, d \in DOMAIN registry.by_type :
         registry.by_type[c].component_type_id = registry.by_type[d].component_type_id
            => c = d
    /\ \A t, u \in 1 .. MaxThreads :
         (/\ threads[t].pc = "done" /\ threads[u].pc = "done"
          /\ threads[t].cls # threads[u].cls
          /\ _stable_component_type_id(threads[t].cls)
               = _stable_component_type_id(threads[u].cls))
            => ~(threads[t].out.raised = "none" /\ threads[u].out.raised = "none")

---------------------------------------------------------------------------
(* Properties of normalize_access (SpecNormalize) *)

\* C36: normalize_access is idempotent: for every access spec x that it
\* accepts, normalize_access(normalize_access(x)) succeeds and equals
\* normalize_access(x).
C36_NormalizeAccessIsIdempotent ==
    normalized.at = "twice" =>
        /\ normalized.twice.raised = "none"
        /\ normalized.twice = normalized.once

---------------------------------------------------------------------------
(* Properties of the storage under any calls (SpecStorage, Spec) *)

\* the free list holds no entry twice and no entity that exists
FreeListIsSound(st) ==
    /\ \A j, k \in 1 .. Len(st.free_list) : st.free_list[j] = st.free_list[k] => j = k
    /\ \A j \in 1 .. Len(st.free_list) :
         ~entity_exists(st, EntityId(st.free_list[j][1], st.free_list[j][2]))

\* a step of World.spawn: the storage changes and the call is recorded
SpawnStep == storage' # storage /\ world_call'.op = "spawn"

\* C37: live entity IDs are unique: create_entity never returns an
\* EntityId that exists in storage at the call or that is a handle issued
\* before and not destroyed since, and the free list of the allocator
\* holds no entry twice and no (index, generation) of an entity that exists.
C37_LiveEntityIdsAreUnique ==
    /\ [][SpawnStep =>
            /\ ~entity_exists(storage, world_call'.out)
            /\ world_call'.out \notin (handles.issued \ handles.destroyed)]_vars
    /\ []FreeListIsSound(storage)

\* C38: no ghost entities: every entity for which the storage returns a
\* component (get, has) satisfies entity_exists, and a set that targets a
\* destroyed or never created entity ID makes no component readable under
\* that ID (stated for the indices the allocator issues by itself).
C38_NoGhostEntities ==
    /\ \A e \in DOMAIN storage.components :
         (e.index >= RESERVED_COUNT /\ \E t \in Types : has_component(storage, e, t))
            => entity_exists(storage, e)
    /\ (/\ world_call.op = "set"
        /\ world_call.entity.index >= RESERVED_COUNT
        /\ ~(world_call.live /\ world_call.existed))
          => \A t \in Types : get_component(storage, world_call.entity, t) = None

---------------------------------------------------------------------------
(* Properties of the retries and of the semaphore (Spec, SpecLive) *)

\* the step in which the body of system i returned and its attempt ended
ReturnStep(i) ==
    /\ i <= Len(tasks) /\ Len(tasks') = Len(tasks)
    /\ tasks[i].status = "running"
    /\ tasks'[i] # tasks[i]
    /\ lastCall'.op = "return" /\ lastCall'.sys = i

\* C39: each retry attempt starts from a new, empty buffer, and the ops
\* buffered by an attempt that ended in an error are never committed: a
\* task hands to the commit the ops of the attempt that succeeded, and
\* nothing when its last attempt failed; the storage changes only by the
\* commit of such a result.
C39_FailedAttemptsLeaveNothingBehind ==
    /\ [][\A i \in 1 .. Len(tasks) :
            /\ (Len(tasks') = Len(tasks) /\ tasks[i].attempt >= 1
                /\ tasks'[i].attempt > tasks[i].attempt)
                  => tasks'[i].buffer = EmptyResult
            /\ (ReturnStep(i) /\ lastCall'.uncaught)
                  => tasks'[i].buffer = EmptyResult
            /\ (ReturnStep(i) /\ ~lastCall'.uncaught)
                  => /\ tasks'[i].status = "done"
                     /\ tasks'[i].buffer
                          = merge(tasks[i].buffer, normalize_result(lastCall'.arg).ops)]_vars
    /\ [][storage' # storage =>
            \E i \in 1 .. Len(tasks) :
                tasks[i].status = "done" /\ tasks[i].buffer # EmptyResult]_vars

\* a system was retried after an attempt that had an update in its buffer
\* ended in an error, its attempts were used up and skipped, and the group
\* was committed: the tick ended without an exception
C39_Witness ==
    /\ tick.phase = "idle" /\ tick.raised = "none"
    /\ config.retry_policy.on_exhausted = "skip"
    /\ Len(tasks) >= 1
    /\ tasks[1].status = "done"
    /\ tasks[1].attempt = MaxAttempts
    /\ lastCall.op = "return" /\ lastCall.sys = 1
    /\ lastCall.arg # None
    /\ lastCall.uncaught
    /\ tasks[1].buffer = EmptyResult
    /\ storage = snapshot

\* the group that is executing reached its commit: its results were merged
\* and applied, and the tick went on to the next group or ended without an
\* exception
Committed(g) ==
    \/ tick.phase = "running" /\ tick.group > g
    \/ tick.phase = "idle" /\ tick.raised = "none"

\* C40: with max_concurrent = k >= 1 and systems that each terminate, every
\* system of the group that is executing starts: it leaves the queue of the
\* semaphore, and finishes: its task ends with its result, and the group
\* reaches its commit.
C40_EveryGroupReachesItsCommit ==
    /\ \A i \in 1 .. MaxSystems :
          (i <= Len(tasks) /\ tasks[i].status = "waiting")
              ~> (i <= Len(tasks) /\ tasks[i].status = "running")
    /\ \A i \in 1 .. MaxSystems :
          (i <= Len(tasks) /\ tasks[i].status = "running"
                                /\ config.max_concurrent.limited)
              ~> (i <= Len(tasks) /\ tasks[i].status = "done")
    /\ \A g \in 1 .. MaxSystems :
          (tick.phase = "running" /\ tick.group = g /\ config.max_concurrent.limited)
              ~> Committed(g)

====
